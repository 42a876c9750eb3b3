---------------------------- MODULE MCGoodsReceipts ----------------------------
EXTENDS GoodsReceipts

Doc(year, number, material) == [year |-> year, number |-> number, material |-> material]
\* Two batteries and two boxes: the numbers start again with the second year, in which
\* a battery has the number, and so the passport id, of one of the first year.
FourDocuments ==
  {Doc(1, 1, "battery"), Doc(2, 1, "battery"), Doc(2, 2, "box"), Doc(2, 3, "box")}
\* Bound: documents are posted one after the other.
Before(d, e) == d.year < e.year \/ (d.year = e.year /\ d.number < e.number)
InTurn == \A d \in posted, e \in Documents : Before(e, d) => e \in posted
Batteries == {"battery"}
=============================================================================
