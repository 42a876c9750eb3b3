---------------------------- MODULE ProofClaimsProofs ----------------------------
(***************************************************************************)
(* What a claim that is booked green rests on: for any contents, vaults,   *)
(* claims and numbers of rows and versions, however carts land in part,    *)
(* waits run out, versions are archived and vaults replaced.               *)
(***************************************************************************)
EXTENDS ProofClaims, FiniteSetTheorems, NaturalsInduction, WellFoundedInduction, TLAPS

\* The attester of a version is known: of the current one while it is
\* anchored, or of one that is archived.
NamedForGood(h) ==
  \/ passport.status = "anchored" /\ passport.named /\ passport.hash = h
  \/ \E i \in DOMAIN archived : archived[i].named /\ archived[i].hash = h

\* A version moves to the archive before the passport leaves its vault.
PassportIsKept ==
  /\ anchor # None => passport.status = "anchoring"
  /\ anchor # None /\ anchor.landed =>
       [vault |-> anchor.vault, hash |-> passport.hash, root |-> anchor.root] \in records
  /\ passport.status = "anchored" => booked /\ passport.vault # None
  /\ archived # <<>> => booked
  /\ passport.status # "anchored" /\ passport.vault # None =>
       \E i \in DOMAIN archived : archived[i].vault = passport.vault

\* From the second anchor on, nothing replaces the tree that was stored for it.
OpeningsAreKept ==
  /\ OpeningsReproduceAnchors
  /\ anchor # None /\ archived # <<>> => passport.opening = anchor.root

\* Every record is on a vault of the passport, and every claim is of a record.
VaultsAreKnown ==
  /\ \A rec \in records :
       rec.vault \in VaultsOf \/ (anchor # None /\ anchor.landed /\ rec.vault = anchor.vault)
  /\ \A x \in claims : \E rec \in records : rec.vault = x.vault

RowIsBacked(r) ==
  r \in Used =>
    /\ log[r].claim \in Claims
    /\ log[r].claim \in FieldClaims => log[r].hashB = None
    /\ log[r].claim \in TransitionClaims =>
         /\ log[r].by # "transaction"
         /\ NamedForGood(log[r].hash) /\ NamedForGood(log[r].hashB)
    /\ Succeeded(r) /\ log[r].by # "transaction" =>
         \E v \in Vaults : [vault |-> v, hash |-> log[r].hash, hashB |-> log[r].hashB,
                            claim |-> log[r].claim] \in claims

\* A job's rows name its claims and, unless a wallet's call was reported late,
\* its versions; what landed whole is on the chain.
JobIsBacked(j) ==
  /\ jobs[j].rows \subseteq Used
  /\ \A r \in jobs[j].rows :
       /\ log[r].claim \in jobs[j].claims /\ log[r].hashB = jobs[j].hashB
       /\ jobs[j].runner = "waits" => log[r].hash = jobs[j].hash
       /\ jobs[j].runner = "tracks" => log[r].claim \in FieldClaims
  /\ jobs[j].runner = "browser" => jobs[j].claims \subseteq FieldClaims /\ jobs[j].hashB = None
  /\ jobs[j].tx = "landed" => \A c \in jobs[j].claims : OnChain(j, c) \in claims

RowsAreNumbered == \E n \in 0..MaxRows : Used = 1..n

ClaimsInvariant ==
  /\ ProofTypeOK
  /\ PassportIsKept /\ OpeningsAreKept /\ VaultsAreKnown
  /\ RowsAreNumbered
  /\ \A r \in Rows : RowIsBacked(r)
  /\ \A j \in Rows : JobIsBacked(j)

-----------------------------------------------------------------------------
(* Numbers, rows and jobs *)

LEMMA LeastNumber ==
  ASSUME NEW N \in SUBSET Nat, N # {}
  PROVE  \E x \in N : \A y \in N : x <= y
<1> DEFINE Less == {ss \in Nat \X Nat : ss[1] < ss[2]}
<1>1. IsWellFoundedOn(Less, Nat)
  BY NatLessThanWellFounded DEF OpToRel
<1> HIDE DEF Less
<1>2. PICK x \in N : \A y \in N : ~ (<<y, x>> \in Less)
  BY <1>1, WFMin
<1>3. ASSUME NEW y \in N, y < x
      PROVE  FALSE
  <2>1. <<y, x>> \in Nat \X Nat /\ <<y, x>>[1] < <<y, x>>[2]
    BY <1>3
  <2> QED
    BY <1>2, <2>1 DEF Less
<1> QED
  BY <1>3

\* Where a job is free, the first of them is taken.
LEMMA FreeJobIsFree ==
  ASSUME FreeJobs # {}
  PROVE  FreeJob \in Rows
<1>1. FreeJobs \in SUBSET Nat
  BY ProofAssumption DEF FreeJobs, Rows
<1>2. \E j \in FreeJobs : \A k \in FreeJobs : j <= k
  BY <1>1, LeastNumber
<1>3. FreeJob \in FreeJobs
  BY <1>2 DEF FreeJob
<1> QED
  BY <1>3 DEF FreeJobs

\* What is booked is booked on rows that were free, one claim on each.
LEMMA BookedRows ==
  ASSUME log \in [Rows -> RowType], RowsAreNumbered,
         NEW S \in SUBSET Claims, IsFiniteSet(S), NEW f \in Insertions(S),
         NEW row \in RowType, row.status # "none", log' = Book(f, row)
  PROVE  /\ log' \in [Rows -> RowType]
         /\ RowsAreNumbered'
         /\ DOMAIN f \subseteq Rows \ Used
         /\ \A r \in DOMAIN f : /\ log'[r].claim \in S /\ log'[r].status = row.status
                                /\ log'[r].by = row.by /\ log'[r].hash = row.hash
                                /\ log'[r].hashB = row.hashB
         /\ \A r \in Rows \ DOMAIN f : log'[r] = log[r]
         /\ Used' = Used \cup DOMAIN f
<1>1. PICK n \in 0..MaxRows : Used = 1..n
  BY DEF RowsAreNumbered
<1>2. n \in Nat /\ Cardinality(Used) = n
  <2>1. n \in Nat
    BY <1>1, ProofAssumption
  <2> QED
    BY <1>1, <2>1, FS_Interval
<1>3. Cardinality(S) \in Nat
  BY FS_CardinalityType
<1> DEFINE new == (n + 1)..(n + Cardinality(S))
<1>4. new \subseteq Rows /\ f \in [new -> S]
  BY <1>2 DEF Insertions
<1>5. DOMAIN f = new
  BY <1>4
<1>6. new \cap Used = {}
  BY <1>1, <1>2, <1>3
<1>7. ASSUME NEW r \in Rows
      PROVE  /\ r \in new => /\ log'[r].claim \in S /\ log'[r].status = row.status
                             /\ log'[r].by = row.by /\ log'[r].hash = row.hash
                             /\ log'[r].hashB = row.hashB
             /\ r \notin new => log'[r] = log[r]
             /\ log'[r] \in RowType
  <2>1. log'[r] = IF r \in new THEN [row EXCEPT !.claim = f[r]] ELSE log[r]
    BY <1>5 DEF Book
  <2>2. r \in new => f[r] \in S
    BY <1>4
  <2> HIDE DEF new
  <2>3. r \in new => [row EXCEPT !.claim = f[r]] \in RowType
    BY <2>2 DEF RowType
  <2>4. r \in new => /\ log'[r].claim \in S /\ log'[r].status = row.status
                    /\ log'[r].by = row.by /\ log'[r].hash = row.hash
                    /\ log'[r].hashB = row.hashB
    BY <2>1, <2>2 DEF RowType
  <2> QED
    BY <2>1, <2>3, <2>4
<1>8. log' \in [Rows -> RowType]
  BY <1>7 DEF Book
<1>9. \A r \in new : log'[r].status # "none"
  BY <1>4, <1>7
<1>10. Used' = Used \cup new
  <2> HIDE DEF new
  <2> QED
    BY <1>4, <1>7, <1>9 DEF Used
<1>11. RowsAreNumbered'
  <2>1. CASE Cardinality(S) = 0
    <3>1. Used' = 1..n
      BY <1>1, <1>2, <1>10, <2>1
    <3> QED
      BY <3>1 DEF RowsAreNumbered
  <2>2. CASE Cardinality(S) # 0
    <3> DEFINE m == n + Cardinality(S)
    <3>1. m \in new
      BY <1>2, <1>3, <2>2
    <3>2. m \in 0..MaxRows
      BY <1>2, <1>3, <1>4, <3>1, ProofAssumption DEF Rows
    <3>3. Used' = 1..m
      BY <1>1, <1>2, <1>3, <1>10
    <3> QED
      BY <3>2, <3>3 DEF RowsAreNumbered
  <2> QED
    BY <2>1, <2>2
<1> QED
  BY <1>4, <1>5, <1>6, <1>7, <1>8, <1>10, <1>11

\* A row that stays is backed by what stays.
LEMMA RowKept ==
  ASSUME log \in [Rows -> RowType], NEW r \in Rows, RowIsBacked(r), log'[r] = log[r],
         claims \subseteq claims',
         \A h \in Contents \cup {None} : NamedForGood(h) => NamedForGood(h)'
  PROVE  RowIsBacked(r)'
<1>1. log[r].hash \in Contents \cup {None} /\ log[r].hashB \in Contents \cup {None}
  BY DEF RowType
<1>2. r \in Used' <=> r \in Used
  BY DEF Used
<1>3. log[r].claim \in TransitionClaims /\ r \in Used =>
        NamedForGood(log[r].hash)' /\ NamedForGood(log[r].hashB)'
  BY <1>1 DEF RowIsBacked, NamedForGood
<1>4. Succeeded(r)' <=> Succeeded(r)
  BY DEF Succeeded
<1> QED
  BY <1>2, <1>3, <1>4 DEF RowIsBacked

\* A job that stays is backed by rows that keep their claims and versions.
LEMMA JobKept ==
  ASSUME NEW j \in Rows, JobIsBacked(j), jobs'[j] = jobs[j], claims \subseteq claims',
         \A r \in Used : /\ r \in Used'
                         /\ log'[r].claim = log[r].claim /\ log'[r].hash = log[r].hash
                         /\ log'[r].hashB = log[r].hashB
  PROVE  JobIsBacked(j)'
<1>1. \A r \in jobs[j].rows : r \in Used
  BY DEF JobIsBacked
<1> QED
  BY <1>1 DEF JobIsBacked, OnChain

-----------------------------------------------------------------------------
(* The passport *)

PassportPart == PassportIsKept /\ OpeningsAreKept /\ VaultsAreKnown

LEMMA PassportPartStays ==
  ASSUME PassportPart, UNCHANGED <<passport, archived, anchor, records, claims>>, booked => booked'
  PROVE  /\ PassportPart'
         /\ \A h \in Contents \cup {None} : NamedForGood(h) => NamedForGood(h)'
<1>1. PassportIsKept'
  BY DEF PassportPart, PassportIsKept
<1>2. OpeningsAreKept'
  BY DEF PassportPart, OpeningsAreKept, OpeningsReproduceAnchors, Opens
<1>3. VaultsAreKnown'
  BY DEF PassportPart, VaultsAreKnown, VaultsOf
<1>4. \A h \in Contents \cup {None} : NamedForGood(h) => NamedForGood(h)'
  BY DEF NamedForGood
<1> QED
  BY <1>1, <1>2, <1>3, <1>4 DEF PassportPart

\* What moves the passport on leaves the log and its jobs alone.
LEMMA LogStands ==
  ASSUME ClaimsInvariant, ProofTypeOK', PassportPart', UNCHANGED <<claims, log, jobs>>,
         \A h \in Contents \cup {None} : NamedForGood(h) => NamedForGood(h)'
  PROVE  ClaimsInvariant'
<1>1. log \in [Rows -> RowType]
  BY DEF ClaimsInvariant, ProofTypeOK
<1>2. \A r \in Rows : RowIsBacked(r)'
  BY <1>1, RowKept DEF ClaimsInvariant
<1>3. Used' = Used
  BY DEF Used
<1>4. \A j \in Rows : JobIsBacked(j)'
  BY <1>3, JobKept DEF ClaimsInvariant
<1>5. RowsAreNumbered'
  BY <1>3 DEF ClaimsInvariant, RowsAreNumbered
<1> QED
  BY <1>2, <1>4, <1>5 DEF ClaimsInvariant, PassportPart

LEMMA ContentKeepsInvariant ==
  ASSUME ClaimsInvariant, ChangeContent
  PROVE  ClaimsInvariant'
<1>1. ProofTypeOK'
  BY DEF ClaimsInvariant, ProofTypeOK, ChangeContent, chain
<1>2. PassportPart' /\ \A h \in Contents \cup {None} : NamedForGood(h) => NamedForGood(h)'
  BY PassportPartStays DEF ClaimsInvariant, PassportPart, ChangeContent, chain
<1> QED
  BY <1>1, <1>2, LogStands DEF ChangeContent, chain

\* A row that is read for a proof keeps its status, its version and its vault;
\* what it stores replaces nothing once a root is booked.
LEMMA ReadingKeepsPassport ==
  ASSUME ClaimsInvariant, NEW overwrite \in BOOLEAN, NEW known \in BOOLEAN,
         overwrite => ~booked, ReadTree(overwrite, known),
         UNCHANGED <<content, archived, env, anchor, records, claims>>, booked' = booked
  PROVE  /\ PassportPart'
         /\ passport' \in PassportType /\ drawn' \in 0..MaxSeeds /\ TreeNow \in Tree
         /\ \A h \in Contents \cup {None} : NamedForGood(h) => NamedForGood(h)'
<1>1. /\ passport \in PassportType /\ content \in Contents /\ drawn \in 0..MaxSeeds
      /\ anchor \in AnchorType \cup {None}
      /\ records \subseteq [vault : Vaults, hash : Contents, root : Tree]
  BY DEF ClaimsInvariant, ProofTypeOK
<1>2. MaxSeeds \in Nat /\ None \notin Tree
  BY ProofAssumption
<1>3. TreeNow \in Tree
  <2>1. CASE passport.opening = None
    <3>1. drawn + 1 \in 1..MaxSeeds
      BY <1>1, <1>2, <2>1 DEF ReadTree
    <3> QED
      BY <1>1, <2>1, <3>1 DEF TreeNow, Tree
  <2>2. CASE passport.opening # None
    <3>1. passport.opening \in Tree
      BY <1>1, <2>2 DEF PassportType
    <3>2. passport.opening.seed \in 1..MaxSeeds
      BY <3>1 DEF Tree
    <3> QED
      BY <1>1, <2>2, <3>2 DEF TreeNow, Tree
  <2> QED
    BY <2>1, <2>2
<1>4. drawn' \in 0..MaxSeeds
  BY <1>1, <1>2 DEF ReadTree
<1> DEFINE kept == IF overwrite \/ passport.opening = None THEN TreeNow ELSE passport.opening
<1>5. passport' = [passport EXCEPT !.opening = kept, !.named = passport.named \/ known]
  BY DEF ReadTree
<1>6. kept \in Tree \cup {None} /\ (booked /\ passport.opening # None => kept = passport.opening)
  BY <1>1, <1>3 DEF PassportType
<1> HIDE DEF kept
<1>7. /\ passport' \in PassportType
      /\ passport'.status = passport.status /\ passport'.hash = passport.hash
      /\ passport'.vault = passport.vault /\ passport'.opening = kept
      /\ passport.named => passport'.named
  BY <1>1, <1>5, <1>6 DEF PassportType
<1>8. PassportIsKept'
  BY <1>7 DEF ClaimsInvariant, PassportIsKept
<1>9. VaultsAreKnown'
  BY <1>7 DEF ClaimsInvariant, VaultsAreKnown, VaultsOf
<1>10. OpeningsAreKept'
  <2>1. anchor # None /\ archived # <<>> => passport'.opening = anchor.root
    <3>1. SUFFICES ASSUME anchor # None, archived # <<>>
                   PROVE  passport'.opening = anchor.root
      OBVIOUS
    <3>2. passport.opening = anchor.root /\ booked
      BY <3>1 DEF ClaimsInvariant, OpeningsAreKept, PassportIsKept
    <3>3. anchor.root \in Tree
      BY <1>1, <3>1 DEF AnchorType
    <3> QED
      BY <1>2, <1>6, <1>7, <3>2, <3>3
  <2>2. passport.status = "anchored" /\ archived # <<>> =>
          Opens(passport'.opening, passport.vault, passport.hash)
    <3>1. SUFFICES ASSUME passport.status = "anchored", archived # <<>>
                   PROVE  Opens(passport'.opening, passport.vault, passport.hash)
      OBVIOUS
    <3>2. Opens(passport.opening, passport.vault, passport.hash) /\ booked
      BY <3>1 DEF ClaimsInvariant, OpeningsAreKept, OpeningsReproduceAnchors, PassportIsKept
    <3>3. passport.opening \in Tree
      BY <1>1, <3>2 DEF Opens
    <3> QED
      BY <1>2, <1>6, <1>7, <3>2, <3>3
  <2>3. \A i \in DOMAIN archived :
          i > 1 => Opens(archived[i].opening, archived[i].vault, archived[i].hash)
    BY DEF ClaimsInvariant, OpeningsAreKept, OpeningsReproduceAnchors
  <2> QED
    BY <1>7, <2>1, <2>2, <2>3 DEF OpeningsAreKept, OpeningsReproduceAnchors, Opens
<1>11. \A h \in Contents \cup {None} : NamedForGood(h) => NamedForGood(h)'
  BY <1>7 DEF NamedForGood
<1> QED
  BY <1>3, <1>4, <1>7, <1>8, <1>9, <1>10, <1>11 DEF PassportPart

LEMMA LandAnchorKeepsInvariant ==
  ASSUME ClaimsInvariant, LandAnchor
  PROVE  ClaimsInvariant'
<1>1. /\ passport \in PassportType
      /\ anchor \in AnchorType
      /\ records \subseteq [vault : Vaults, hash : Contents, root : Tree]
  BY DEF ClaimsInvariant, ProofTypeOK, LandAnchor
<1> DEFINE new == [vault |-> anchor.vault, hash |-> passport.hash, root |-> anchor.root]
<1>2. new \in [vault : Vaults, hash : Contents, root : Tree] /\ new.vault = anchor.vault
  BY <1>1 DEF PassportType, AnchorType
<1>3. /\ anchor' \in AnchorType
      /\ anchor'.vault = anchor.vault /\ anchor'.root = anchor.root /\ anchor'.landed
      /\ anchor # None
  BY <1>1 DEF LandAnchor, AnchorType
<1>4. /\ UNCHANGED <<passport, content, archived, booked, env, claims, log, jobs, drawn>>
      /\ records' = records \cup {new}
  BY DEF LandAnchor
<1>5. new = [vault |-> anchor'.vault, hash |-> passport'.hash, root |-> anchor'.root]
  BY <1>3, <1>4
<1> HIDE DEF new
<1>6. ProofTypeOK'
  BY <1>2, <1>3, <1>4 DEF ClaimsInvariant, ProofTypeOK
<1>7. PassportIsKept'
  <2>1. [vault |-> anchor'.vault, hash |-> passport'.hash, root |-> anchor'.root] \in records'
    BY <1>4, <1>5
  <2> QED
    BY <1>3, <1>4, <2>1 DEF ClaimsInvariant, PassportIsKept
<1>8. OpeningsAreKept'
  BY <1>3, <1>4 DEF ClaimsInvariant, OpeningsAreKept, OpeningsReproduceAnchors, Opens
<1>9. VaultsAreKnown'
  <2>1. \A rec \in records' :
          rec.vault \in VaultsOf \/ (anchor' # None /\ anchor'.landed /\ rec.vault = anchor'.vault)
    <3>1. anchor' # None
      BY <1>3, ProofAssumption
    <3> QED
      BY <1>2, <1>3, <1>4, <3>1 DEF ClaimsInvariant, VaultsAreKnown
  <2>2. VaultsOf' = VaultsOf
    BY <1>4 DEF VaultsOf
  <2>3. \A x \in claims' : \E rec \in records' : rec.vault = x.vault
    BY <1>4 DEF ClaimsInvariant, VaultsAreKnown
  <2> QED
    BY <2>1, <2>2, <2>3 DEF VaultsAreKnown
<1>10. \A h \in Contents \cup {None} : NamedForGood(h) => NamedForGood(h)'
  BY <1>4 DEF NamedForGood
<1> QED
  BY <1>4, <1>6, <1>7, <1>8, <1>9, <1>10, LogStands DEF PassportPart

\* A version is archived before another takes its place.
LEMMA StartKeepsInvariant ==
  ASSUME ClaimsInvariant, Submit \/ Reanchor
  PROVE  ClaimsInvariant'
<1> DEFINE Version == [hash : Contents, vault : Vaults, named : BOOLEAN, opening : Tree \cup {None}]
           old == [hash |-> passport.hash, vault |-> passport.vault, named |-> passport.named,
                   opening |-> passport.opening]
<1>1. /\ passport \in PassportType /\ archived \in Seq(Version) /\ env \in Vaults
      /\ content \in Contents /\ drawn \in 0..MaxSeeds
  BY DEF ClaimsInvariant, ProofTypeOK
<1>2. PICK h \in Contents, v \in Vaults : AnchorRow(h, v)
  <2>1. VaultFor \in Vaults
    BY <1>1 DEF VaultFor, PassportType
  <2>2. passport.hash \in Contents
    BY <1>1 DEF PassportType
  <2> QED
    BY <1>1, <2>1, <2>2 DEF Submit, Reanchor, TargetVaults
<1> DEFINE tree == [seed |-> drawn + 1, values |-> content]
<1>3. tree \in Tree /\ drawn' \in 0..MaxSeeds /\ anchor = None
  <2>1. drawn + 1 \in 1..MaxSeeds
    BY <1>1, <1>2, ProofAssumption DEF AnchorRow
  <2>2. drawn' = drawn + 1
    BY <1>2 DEF AnchorRow
  <2> QED
    BY <1>1, <1>2, <2>1, <2>2, ProofAssumption DEF Tree, AnchorRow
<1>4. /\ passport' = [passport EXCEPT !.status = "anchoring", !.hash = h, !.opening = tree]
      /\ anchor' = [vault |-> v, root |-> tree, landed |-> FALSE]
      /\ UNCHANGED <<content, booked, env, records, claims, log, jobs>>
  BY <1>2 DEF AnchorRow, chain
<1> HIDE DEF tree
<1>5. /\ passport' \in PassportType
      /\ passport'.status = "anchoring" /\ passport'.opening = tree
      /\ passport'.vault = passport.vault
  BY <1>1, <1>3, <1>4 DEF PassportType
<1>6. /\ anchor' \in AnchorType /\ ~anchor'.landed /\ anchor'.root = tree
  BY <1>3, <1>4 DEF AnchorType
<1>7. archived' = IF passport.status = "anchored" THEN Append(archived, old) ELSE archived
  BY DEF Submit, Reanchor
<1>8. passport.status = "anchored" =>
        /\ old \in Version /\ old.vault = passport.vault /\ old.hash = passport.hash
        /\ old.named = passport.named /\ old.opening = passport.opening
        /\ passport.vault # None /\ booked
  <2>1. passport.status = "anchored" => passport.vault # None /\ booked
    BY DEF ClaimsInvariant, PassportIsKept
  <2> QED
    BY <1>1, <2>1 DEF PassportType
<1> HIDE DEF old, Version
<1>9. /\ archived' \in Seq(Version)
      /\ \A i \in DOMAIN archived : i \in DOMAIN archived' /\ archived'[i] = archived[i]
      /\ \A i \in DOMAIN archived' :
           \/ i \in DOMAIN archived /\ archived'[i] = archived[i]
           \/ /\ passport.status = "anchored" /\ archived'[i] = old
              /\ i > 1 => archived # <<>>
      /\ passport.status = "anchored" => \E i \in DOMAIN archived' : archived'[i] = old
  <2>1. CASE passport.status = "anchored"
    <3>1. archived' = Append(archived, old) /\ old \in Version
      BY <1>7, <1>8, <2>1
    <3>2. Len(archived') = Len(archived) + 1 /\ Len(archived) \in Nat
      BY <1>1, <3>1
    <3>3. DOMAIN archived' = 1..(Len(archived) + 1) /\ DOMAIN archived = 1..Len(archived)
      BY <1>1, <3>1
    <3>4. archived'[Len(archived) + 1] = old /\ archived' \in Seq(Version)
      BY <1>1, <3>1
    <3>5. \A i \in 1..Len(archived) : archived'[i] = archived[i]
      BY <1>1, <3>1
    <3>6. Len(archived) + 1 > 1 => archived # <<>>
      BY <3>2
    <3> QED
      BY <2>1, <3>2, <3>3, <3>4, <3>5, <3>6
  <2>2. CASE passport.status # "anchored"
    BY <1>1, <1>7, <2>2
  <2> QED
    BY <2>1, <2>2
<1>10. ProofTypeOK'
  <2>1. archived' \in Seq([hash : Contents, vault : Vaults, named : BOOLEAN,
                           opening : Tree \cup {None}])
    BY <1>9 DEF Version
  <2> QED
    BY <1>3, <1>4, <1>5, <1>6, <2>1 DEF ClaimsInvariant, ProofTypeOK
<1>11. PassportIsKept'
  <2>1. archived' # <<>> => booked'
    <3>1. CASE passport.status = "anchored"
      BY <1>4, <1>8, <3>1
    <3>2. CASE passport.status # "anchored"
      BY <1>4, <1>7, <3>2 DEF ClaimsInvariant, PassportIsKept
    <3> QED
      BY <3>1, <3>2
  <2>2. passport'.vault # None => \E i \in DOMAIN archived' : archived'[i].vault = passport'.vault
    <3>1. CASE passport.status = "anchored"
      BY <1>5, <1>8, <1>9, <3>1
    <3>2. CASE passport.status # "anchored"
      BY <1>5, <1>9, <3>2 DEF ClaimsInvariant, PassportIsKept
    <3> QED
      BY <3>1, <3>2
  <2> QED
    BY <1>5, <1>6, <2>1, <2>2 DEF PassportIsKept
<1>12. OpeningsAreKept'
  <2>1. ASSUME NEW i \in DOMAIN archived', i > 1
        PROVE  Opens(archived'[i].opening, archived'[i].vault, archived'[i].hash)
    <3>1. CASE i \in DOMAIN archived /\ archived'[i] = archived[i]
      BY <2>1, <3>1 DEF ClaimsInvariant, OpeningsAreKept, OpeningsReproduceAnchors
    <3>2. CASE passport.status = "anchored" /\ archived'[i] = old /\ archived # <<>>
      <4>1. Opens(passport.opening, passport.vault, passport.hash)
        BY <3>2 DEF ClaimsInvariant, OpeningsAreKept, OpeningsReproduceAnchors
      <4> QED
        BY <1>8, <3>2, <4>1
    <3> QED
      BY <1>9, <2>1, <3>1, <3>2
  <2> QED
    BY <1>4, <1>5, <1>6, <2>1 DEF OpeningsAreKept, OpeningsReproduceAnchors, Opens
<1>13. VaultsAreKnown'
  <2>1. VaultsOf \subseteq VaultsOf'
    <3>1. \A i \in DOMAIN archived : archived[i].vault \in VaultsOf'
      BY <1>9 DEF VaultsOf
    <3> QED
      BY <1>5, <3>1 DEF VaultsOf
  <2>2. \A rec \in records : rec.vault \in VaultsOf
    BY <1>3 DEF ClaimsInvariant, VaultsAreKnown
  <2> QED
    BY <1>4, <2>1, <2>2 DEF ClaimsInvariant, VaultsAreKnown
<1>14. ASSUME NEW x \in Contents \cup {None}, NamedForGood(x)
       PROVE  NamedForGood(x)'
  <2>1. CASE passport.status = "anchored" /\ passport.named /\ passport.hash = x
    BY <1>8, <1>9, <2>1 DEF NamedForGood
  <2>2. CASE \E i \in DOMAIN archived : archived[i].named /\ archived[i].hash = x
    BY <1>9, <2>2 DEF NamedForGood
  <2> QED
    BY <1>14, <2>1, <2>2 DEF NamedForGood
<1> QED
  BY <1>4, <1>10, <1>11, <1>12, <1>13, <1>14, LogStands DEF PassportPart

\* What settles as anchored is on the chain, under the tree that is stored.
LEMMA SettleAnchorKeepsInvariant ==
  ASSUME ClaimsInvariant, AnchorSettles
  PROVE  ClaimsInvariant'
<1>1. /\ passport \in PassportType /\ booked \in BOOLEAN
      /\ anchor \in AnchorType /\ anchor # None /\ anchor' = None
      /\ UNCHANGED <<content, archived, env, records, claims, log, jobs, drawn>>
  BY DEF ClaimsInvariant, ProofTypeOK, AnchorSettles, chain
<1>2. passport.status = "anchoring"
  BY <1>1 DEF ClaimsInvariant, PassportIsKept
<1>3. \A x \in Contents \cup {None} : NamedForGood(x) => NamedForGood(x)'
  BY <1>1, <1>2 DEF NamedForGood
<1>4. CASE ~anchor.landed
  <2>1. passport' = [passport EXCEPT !.status = "failed"] /\ booked' = booked
    BY <1>4 DEF AnchorSettles
  <2>2. /\ passport' \in PassportType
        /\ passport'.status = "failed" /\ passport'.vault = passport.vault
    BY <1>1, <2>1 DEF PassportType
  <2>3. ProofTypeOK'
    BY <1>1, <2>1, <2>2 DEF ClaimsInvariant, ProofTypeOK
  <2>4. PassportIsKept'
    BY <1>1, <1>2, <2>1, <2>2 DEF ClaimsInvariant, PassportIsKept
  <2>5. OpeningsAreKept'
    BY <1>1, <2>2 DEF ClaimsInvariant, OpeningsAreKept, OpeningsReproduceAnchors, Opens
  <2>6. VaultsAreKnown'
    BY <1>1, <1>4, <2>2 DEF ClaimsInvariant, VaultsAreKnown, VaultsOf
  <2> QED
    BY <1>1, <1>3, <2>3, <2>4, <2>5, <2>6, LogStands DEF PassportPart
<1>5. CASE anchor.landed
  <2>1. PICK known \in BOOLEAN :
          passport' = [passport EXCEPT !.status = "anchored", !.vault = anchor.vault,
                                       !.named = passport.named \/ known]
    BY <1>1, <1>5 DEF AnchorSettles, PassportType
  <2>2. booked' = TRUE
    BY <1>5 DEF AnchorSettles
  <2>3. /\ passport' \in PassportType
        /\ passport'.status = "anchored" /\ passport'.vault = anchor.vault
        /\ passport'.hash = passport.hash /\ passport'.opening = passport.opening
    BY <1>1, <2>1 DEF PassportType, AnchorType
  <2>4. ProofTypeOK'
    BY <1>1, <2>2, <2>3 DEF ClaimsInvariant, ProofTypeOK
  <2>5. passport'.vault # None
    BY <1>1, <2>3, ProofAssumption DEF AnchorType
  <2>6. PassportIsKept'
    BY <1>1, <2>2, <2>3, <2>5 DEF PassportIsKept
  <2>7. OpeningsAreKept'
    <3>1. archived # <<>> => Opens(passport'.opening, passport'.vault, passport'.hash)
      BY <1>1, <1>5, <2>3 DEF ClaimsInvariant, PassportIsKept, OpeningsAreKept, Opens
    <3>2. \A i \in DOMAIN archived :
            i > 1 => Opens(archived[i].opening, archived[i].vault, archived[i].hash)
      BY DEF ClaimsInvariant, OpeningsAreKept, OpeningsReproduceAnchors
    <3> QED
      BY <1>1, <3>1, <3>2 DEF OpeningsAreKept, OpeningsReproduceAnchors, Opens
  <2>8. VaultsAreKnown'
    <3>1. \A rec \in records : rec.vault \in VaultsOf \/ rec.vault = passport'.vault
      BY <2>3 DEF ClaimsInvariant, VaultsAreKnown
    <3>2. passport'.vault \in VaultsOf' /\ \A i \in DOMAIN archived : archived[i].vault \in VaultsOf'
      BY <1>1 DEF VaultsOf
    <3>3. ASSUME NEW rec \in records
          PROVE  rec.vault \in VaultsOf'
      <4>1. rec.vault # None
        <5>1. records \subseteq [vault : Vaults, hash : Contents, root : Tree]
          BY DEF ClaimsInvariant, ProofTypeOK
        <5> QED
          BY <5>1, ProofAssumption
      <4>2. CASE rec.vault = passport.vault
        BY <1>2, <3>2, <4>1, <4>2 DEF ClaimsInvariant, PassportIsKept
      <4>3. CASE rec.vault # passport.vault
        BY <3>1, <3>2, <4>3 DEF VaultsOf
      <4> QED
        BY <4>2, <4>3
    <3> QED
      BY <1>1, <3>3 DEF ClaimsInvariant, VaultsAreKnown
  <2> QED
    BY <1>1, <1>3, <2>4, <2>6, <2>7, <2>8, LogStands DEF PassportPart
<1> QED
  BY <1>4, <1>5

-----------------------------------------------------------------------------
(* Asking *)

\* Rows that are booked, none of them as succeeded: of a field, or of two
\* versions whose attesters are known.
LEMMA BookingBacksRows ==
  ASSUME ClaimsInvariant, UNCHANGED claims,
         \A h \in Contents \cup {None} : NamedForGood(h) => NamedForGood(h)',
         NEW S, S \subseteq FieldClaims \/ S \subseteq TransitionClaims, NEW f \in Insertions(S),
         NEW row \in RowType, row.status \notin {"none", "succeeded"}, row.by = "none",
         log' = Book(f, row),
         S \subseteq FieldClaims => row.hashB = None,
         ~ (S \subseteq FieldClaims) =>
           NamedForGood(row.hash) /\ NamedForGood(row.hashB)
  PROVE  /\ log' \in [Rows -> RowType]
         /\ RowsAreNumbered'
         /\ \A r \in Rows : RowIsBacked(r)'
         /\ DOMAIN f \subseteq Rows /\ DOMAIN f \subseteq Used'
         /\ \A r \in DOMAIN f : /\ log'[r].claim \in S /\ log'[r].status = row.status
                                /\ log'[r].by = row.by /\ log'[r].hash = row.hash
                                /\ log'[r].hashB = row.hashB
         /\ \A r \in Used : r \in Used' /\ log'[r] = log[r]
<1>1. log \in [Rows -> RowType] /\ RowsAreNumbered
  BY DEF ClaimsInvariant, ProofTypeOK
<1>2. S \in SUBSET Claims /\ IsFiniteSet(S)
  BY ProofAssumption, FS_Subset DEF Claims
<1>3. /\ log' \in [Rows -> RowType]
      /\ RowsAreNumbered'
      /\ DOMAIN f \subseteq Rows \ Used
      /\ \A r \in DOMAIN f : /\ log'[r].claim \in S /\ log'[r].status = row.status
                             /\ log'[r].by = row.by /\ log'[r].hash = row.hash
                             /\ log'[r].hashB = row.hashB
      /\ \A r \in Rows \ DOMAIN f : log'[r] = log[r]
      /\ Used' = Used \cup DOMAIN f
  BY <1>1, <1>2, BookedRows
<1>4. \A r \in Used : r \in Rows \ DOMAIN f
  BY <1>3 DEF Used
<1>5. ASSUME NEW r \in DOMAIN f
      PROVE  RowIsBacked(r)'
  <2>1. /\ log'[r].claim \in S /\ log'[r].status = row.status /\ log'[r].by = "none"
        /\ log'[r].hash = row.hash /\ log'[r].hashB = row.hashB
    BY <1>3
  <2>2. log'[r].claim \in FieldClaims => S \subseteq FieldClaims
    BY <2>1, ProofAssumption
  <2>3. log'[r].claim \in TransitionClaims => ~ (S \subseteq FieldClaims)
    BY <2>1, ProofAssumption
  <2>4. row.hash \in Contents \cup {None} /\ row.hashB \in Contents \cup {None}
    BY DEF RowType
  <2>5. log'[r].claim \in TransitionClaims =>
          NamedForGood(log[r].hash)' /\ NamedForGood(log[r].hashB)'
    BY <2>1, <2>3, <2>4 DEF NamedForGood
  <2>6. ~ Succeeded(r)'
    BY <2>1 DEF Succeeded
  <2> QED
    BY <1>2, <2>1, <2>2, <2>5, <2>6 DEF RowIsBacked
<1>6. ASSUME NEW r \in Rows \ DOMAIN f
      PROVE  RowIsBacked(r)'
  BY <1>1, <1>3, RowKept DEF ClaimsInvariant
<1> QED
  BY <1>3, <1>4, <1>5, <1>6

\* A job under way, with rows that were booked for it.
LEMMA NewJobIsBacked ==
  ASSUME NEW j \in Rows, NEW rows \in SUBSET Used',
         jobs'[j].rows = rows, jobs'[j].tx # "landed",
         jobs'[j].runner = "waits" => \A r \in rows : log'[r].hash = jobs'[j].hash,
         jobs'[j].runner = "tracks" => jobs'[j].claims \subseteq FieldClaims,
         jobs'[j].runner = "browser" =>
           jobs'[j].claims \subseteq FieldClaims /\ jobs'[j].hashB = None,
         \A r \in rows : log'[r].claim \in jobs'[j].claims /\ log'[r].hashB = jobs'[j].hashB
  PROVE  JobIsBacked(j)'
BY DEF JobIsBacked

\* What asks for a proof, altogether: rows, perhaps a job for them.
LEMMA AskingKeeps ==
  ASSUME ClaimsInvariant, PassportPart', UNCHANGED <<content, booked, env, archived, anchor, records, claims>>,
         passport' \in PassportType, drawn' \in 0..MaxSeeds,
         log' \in [Rows -> RowType], RowsAreNumbered', \A r \in Rows : RowIsBacked(r)',
         \A r \in Used : r \in Used' /\ log'[r] = log[r],
         jobs' \in [Rows -> JobType],
         \A j \in Rows : jobs'[j] = jobs[j] \/ JobIsBacked(j)'
  PROVE  ClaimsInvariant'
<1>1. ProofTypeOK'
  BY DEF ClaimsInvariant, ProofTypeOK
<1>2. ASSUME NEW j \in Rows, jobs'[j] = jobs[j]
      PROVE  JobIsBacked(j)'
  <2>1. JobIsBacked(j)
    BY DEF ClaimsInvariant
  <2> QED
    BY <1>2, <2>1, JobKept
<1> QED
  BY <1>1, <1>2 DEF ClaimsInvariant, PassportPart

LEMMA FieldRows ==
  ASSUME ClaimsInvariant, NEW status \in {"offline", "pending", "failed"}
  PROVE  /\ FieldRow(status) \in RowType /\ FieldRow(status).status = status
         /\ FieldRow(status).by = "none" /\ FieldRow(status).hashB = None
         /\ FieldRow(status).hash = passport.hash
<1>1. passport.hash \in Contents /\ passport.named \in BOOLEAN
  BY DEF ClaimsInvariant, ProofTypeOK, PassportType
<1> QED
  BY <1>1 DEF FieldRow, NoRow, RowType

LEMMA OfflineKeepsInvariant ==
  ASSUME ClaimsInvariant, NEW S \in SUBSET FieldClaims, Offline(S)
  PROVE  ClaimsInvariant'
<1>1. PICK f \in Insertions(S) : log' = Book(f, FieldRow("offline"))
  BY DEF Offline
<1>2. UNCHANGED <<passport, content, archived, booked, env, anchor, records, claims, jobs, drawn>>
  BY DEF Offline, anchoring, chain
<1>3. PassportPart' /\ \A h \in Contents \cup {None} : NamedForGood(h) => NamedForGood(h)'
  BY <1>2, PassportPartStays DEF ClaimsInvariant, PassportPart
<1>4. /\ FieldRow("offline") \in RowType /\ FieldRow("offline").status = "offline"
      /\ FieldRow("offline").by = "none" /\ FieldRow("offline").hashB = None
  BY FieldRows
<1>5. /\ log' \in [Rows -> RowType]
      /\ RowsAreNumbered'
      /\ \A r \in Rows : RowIsBacked(r)'
      /\ \A r \in Used : r \in Used' /\ log'[r] = log[r]
  BY <1>1, <1>2, <1>3, <1>4, BookingBacksRows
<1>6. /\ passport \in PassportType /\ drawn \in 0..MaxSeeds /\ jobs \in [Rows -> JobType]
  BY DEF ClaimsInvariant, ProofTypeOK
<1> QED
  BY <1>2, <1>3, <1>5, <1>6, AskingKeeps

LEMMA ProofJobs ==
  ASSUME NEW kind \in {"single", "cart", "wallet"}, NEW S \in SUBSET Claims,
         NEW rows \in SUBSET Rows, NEW overwrite \in BOOLEAN,
         VaultFor \in Vaults, passport.hash \in Contents, TreeNow \in Tree
  PROVE  LET job == ProofJob(kind, S, rows, overwrite)
         IN  /\ job \in JobType
             /\ job.rows = rows /\ job.claims = S /\ job.hash = passport.hash
             /\ job.hashB = None /\ job.tx = "inflight" /\ job.runner = "waits"
<1> DEFINE job == ProofJob(kind, S, rows, overwrite)
<1>1. job = [kind |-> kind, rows |-> rows, claims |-> S, vault |-> VaultFor,
             hash |-> passport.hash, hashB |-> None, tree |-> TreeNow, treeB |-> None,
             rootIn |-> overwrite, tx |-> "inflight", runner |-> "waits"]
  BY DEF ProofJob, NoJob
<1> HIDE DEF job
<1>2. /\ job \in JobType
      /\ job.rows = rows /\ job.claims = S /\ job.hash = passport.hash
      /\ job.hashB = None /\ job.tx = "inflight" /\ job.runner = "waits"
  BY <1>1 DEF JobType
<1> QED
  BY <1>2 DEF job

\* A server's proof of fields, one or a cart of them.
LEMMA ServerProofKeepsInvariant ==
  ASSUME ClaimsInvariant, NEW S \in SUBSET FieldClaims, NEW known \in BOOLEAN,
         NEW kind \in {"single", "cart"}, FreeJobs # {},
         NEW overwrite \in BOOLEAN, overwrite => ~booked, ReadTree(overwrite, known),
         NEW f \in Insertions(S), NEW row \in RowType,
         row.status = "pending", row.by = "none", row.hashB = None, row.hash = passport.hash,
         log' = Book(f, row),
         jobs' = [jobs EXCEPT ![FreeJob] = ProofJob(kind, S, DOMAIN f, overwrite)],
         UNCHANGED <<content, archived, booked, env, anchor, records, claims>>
  PROVE  ClaimsInvariant'
<1>1. /\ passport \in PassportType /\ env \in Vaults /\ jobs \in [Rows -> JobType]
      /\ booked \in BOOLEAN
  BY DEF ClaimsInvariant, ProofTypeOK
<1>2. /\ PassportPart'
      /\ passport' \in PassportType /\ drawn' \in 0..MaxSeeds /\ TreeNow \in Tree
      /\ \A h \in Contents \cup {None} : NamedForGood(h) => NamedForGood(h)'
  BY <1>1, ReadingKeepsPassport
<1>3. /\ log' \in [Rows -> RowType]
      /\ RowsAreNumbered'
      /\ \A r \in Rows : RowIsBacked(r)'
      /\ DOMAIN f \subseteq Rows /\ DOMAIN f \subseteq Used'
      /\ \A r \in DOMAIN f : /\ log'[r].claim \in S /\ log'[r].status = row.status
                             /\ log'[r].by = row.by /\ log'[r].hash = row.hash
                             /\ log'[r].hashB = row.hashB
      /\ \A r \in Used : r \in Used' /\ log'[r] = log[r]
  BY <1>2, BookingBacksRows
<1>4. VaultFor \in Vaults /\ passport.hash \in Contents
  BY <1>1 DEF VaultFor, PassportType
<1> DEFINE job == ProofJob(kind, S, DOMAIN f, overwrite)
<1>5. /\ job \in JobType
      /\ job.rows = DOMAIN f /\ job.claims = S /\ job.hash = passport.hash /\ job.hashB = None
      /\ job.tx = "inflight" /\ job.runner = "waits"
  <2> DEFINE rows == DOMAIN f
  <2>1. rows \in SUBSET Rows /\ S \in SUBSET Claims
    BY <1>3 DEF Claims
  <2> HIDE DEF rows
  <2>2. LET it == ProofJob(kind, S, rows, overwrite)
        IN  /\ it \in JobType
            /\ it.rows = rows /\ it.claims = S /\ it.hash = passport.hash
            /\ it.hashB = None /\ it.tx = "inflight" /\ it.runner = "waits"
    BY <1>2, <1>4, <2>1, ProofJobs
  <2> QED
    BY <2>2 DEF rows
<1> HIDE DEF job
<1>6. FreeJob \in Rows
  BY FreeJobIsFree
<1>7. jobs' \in [Rows -> JobType] /\ jobs'[FreeJob] = job /\ \A j \in Rows \ {FreeJob} : jobs'[j] = jobs[j]
  BY <1>1, <1>5, <1>6 DEF job
<1>8. \A r \in DOMAIN f : /\ log'[r].claim \in S /\ log'[r].hashB = None
                          /\ log'[r].hash = passport.hash
  BY <1>3
<1>9. PICK j \in Rows : j = FreeJob
  BY <1>6
<1>10. JobIsBacked(j)'
  BY <1>3, <1>5, <1>7, <1>8, <1>9, NewJobIsBacked
<1> QED
  BY <1>2, <1>3, <1>7, <1>9, <1>10, AskingKeeps

LEMMA ProveKeepsInvariant ==
  ASSUME ClaimsInvariant,
         (\E c \in FieldClaims : ProveValue(c)) \/ (\E S \in Carts : ProveCart(S))
  PROVE  ClaimsInvariant'
<1>1. booked \in BOOLEAN /\ passport \in PassportType
      /\ drawn \in 0..MaxSeeds /\ jobs \in [Rows -> JobType]
  BY DEF ClaimsInvariant, ProofTypeOK
<1>2. PICK overwrite \in BOOLEAN : overwrite = ~ContentRootAnchored
  BY <1>1 DEF ContentRootAnchored
<1>3. overwrite => ~booked
  BY <1>2 DEF ContentRootAnchored
<1>4. CASE \E c \in FieldClaims : ProveValue(c)
  <2>1. PICK c \in FieldClaims : ProveValue(c)
    BY <1>4
  <2>2. CASE Offline({c})
    BY <2>2, OfflineKeepsInvariant
  <2>3. CASE ~Offline({c})
    <3>1. /\ FreeJobs # {} /\ ReadTree(overwrite, FALSE)
          /\ UNCHANGED <<content, archived, booked, env, anchor, records, claims>>
      BY <1>2, <2>1, <2>3 DEF ProveValue, anchoring, chain
    <3>2. PICK f \in Insertions({c}) :
            /\ log' = Book(f, FieldRow("pending"))
            /\ jobs' = [jobs EXCEPT ![FreeJob] = ProofJob("single", {c}, DOMAIN f, overwrite)]
      BY <1>2, <2>1, <2>3 DEF ProveValue
    <3>3. {c} \in SUBSET FieldClaims
      OBVIOUS
    <3>4. /\ FieldRow("pending") \in RowType /\ FieldRow("pending").status = "pending"
          /\ FieldRow("pending").by = "none" /\ FieldRow("pending").hashB = None
          /\ FieldRow("pending").hash = passport.hash
      BY FieldRows
    <3> QED
      BY <1>3, <3>1, <3>2, <3>3, <3>4, ServerProofKeepsInvariant
  <2> QED
    BY <2>2, <2>3
<1>5. CASE \E S \in Carts : ProveCart(S)
  <2>1. PICK S \in SUBSET FieldClaims : ProveCart(S)
    BY <1>5 DEF Carts
  <2>2. CASE Offline(S)
    BY <2>2, OfflineKeepsInvariant
  <2>3. CASE ~Offline(S)
    <3> DEFINE row == [FieldRow("pending") EXCEPT !.named = TRUE]
    <3>1. /\ row \in RowType /\ row.status = "pending"
          /\ row.by = "none" /\ row.hashB = None /\ row.hash = passport.hash
      <4>1. /\ FieldRow("pending") \in RowType /\ FieldRow("pending").status = "pending"
            /\ FieldRow("pending").by = "none" /\ FieldRow("pending").hashB = None
            /\ FieldRow("pending").hash = passport.hash
        BY FieldRows
      <4> QED
        BY <4>1 DEF RowType
    <3>2. /\ FreeJobs # {}
          /\ UNCHANGED <<content, archived, booked, env, anchor, records, claims>>
      BY <2>1, <2>3 DEF ProveCart, anchoring, chain
    <3>3. PICK f \in Insertions(S) :
            /\ log' = Book(f, row)
            /\ \/ /\ ReadTree(overwrite, TRUE)
                  /\ jobs' = [jobs EXCEPT ![FreeJob] = ProofJob("cart", S, DOMAIN f, overwrite)]
               \/ /\ passport' = [passport EXCEPT !.named = TRUE]
                  /\ UNCHANGED <<jobs, drawn>>
      BY <1>2, <2>1, <2>3 DEF ProveCart
    <3> HIDE DEF row
    <3>4. CASE ReadTree(overwrite, TRUE) /\
               jobs' = [jobs EXCEPT ![FreeJob] = ProofJob("cart", S, DOMAIN f, overwrite)]
      BY <1>3, <3>1, <3>2, <3>3, <3>4, ServerProofKeepsInvariant
    <3>5. CASE passport' = [passport EXCEPT !.named = TRUE] /\ UNCHANGED <<jobs, drawn>>
      <4>1. /\ passport' \in PassportType
            /\ passport'.status = passport.status /\ passport'.hash = passport.hash
            /\ passport'.vault = passport.vault /\ passport'.opening = passport.opening
            /\ passport'.named
        BY <1>1, <3>5 DEF PassportType
      <4>2. PassportIsKept'
        BY <3>2, <4>1 DEF ClaimsInvariant, PassportIsKept
      <4>3. OpeningsAreKept'
        BY <3>2, <4>1 DEF ClaimsInvariant, OpeningsAreKept, OpeningsReproduceAnchors, Opens
      <4>4. VaultsAreKnown'
        BY <3>2, <4>1 DEF ClaimsInvariant, VaultsAreKnown, VaultsOf
      <4>5. \A h \in Contents \cup {None} : NamedForGood(h) => NamedForGood(h)'
        BY <3>2, <4>1 DEF NamedForGood
      <4>6. /\ log' \in [Rows -> RowType]
            /\ RowsAreNumbered'
            /\ \A r \in Rows : RowIsBacked(r)'
            /\ \A r \in Used : r \in Used' /\ log'[r] = log[r]
        BY <3>1, <3>2, <3>3, <4>5, BookingBacksRows
      <4> QED
        BY <1>1, <3>2, <3>5, <4>1, <4>2, <4>3, <4>4, <4>6, AskingKeeps DEF PassportPart
    <3> QED
      BY <3>3, <3>4, <3>5
  <2> QED
    BY <2>2, <2>3
<1> QED
  BY <1>4, <1>5

LEMMA TransitionKeepsInvariant ==
  ASSUME ClaimsInvariant, NEW i, NEW S \in SUBSET TransitionClaims, S # {},
         ProveVersionIntegrity(i, S)
  PROVE  ClaimsInvariant'
<1> DEFINE old == archived[i]
           Version == [hash : Contents, vault : Vaults, named : BOOLEAN, opening : Tree \cup {None}]
<1>1. /\ passport \in PassportType /\ env \in Vaults /\ jobs \in [Rows -> JobType]
      /\ drawn \in 0..MaxSeeds /\ archived \in Seq(Version)
  BY DEF ClaimsInvariant, ProofTypeOK
<1>2. /\ i \in DOMAIN archived /\ FreeJobs # {} /\ Comparable(old)
      /\ UNCHANGED <<passport, content, archived, booked, env, anchor, records, claims, drawn>>
  BY DEF ProveVersionIntegrity, anchoring, chain
<1>3. old \in Version
  <2> HIDE DEF Version
  <2> QED
    BY <1>1, <1>2
<1>4. PICK f \in Insertions(S), status \in {"offline", "pending"} :
        /\ log' = Book(f, TransitionRow(status, old))
        /\ jobs' = IF status = "offline" THEN jobs
                   ELSE [jobs EXCEPT ![FreeJob] = TransitionJob(old, S, DOMAIN f)]
  BY DEF ProveVersionIntegrity
<1>5. /\ NamedForGood(old.hash) /\ NamedForGood(passport.hash)
      /\ passport.hash \in Contents /\ VaultFor \in Vaults /\ passport.opening \in Tree \cup {None}
  BY <1>1, <1>2 DEF Comparable, NamedForGood, PassportType, VaultFor
<1> DEFINE row == TransitionRow(status, old)
<1>6. /\ row \in RowType /\ row.status = status /\ row.by = "none"
      /\ row.hash = old.hash /\ row.hashB = passport.hash
  BY <1>3, <1>5 DEF TransitionRow, NoRow, RowType
<1> HIDE DEF row
<1>7. PassportPart' /\ \A h \in Contents \cup {None} : NamedForGood(h) => NamedForGood(h)'
  BY <1>2, PassportPartStays DEF ClaimsInvariant, PassportPart
<1>8. ~ (S \subseteq FieldClaims)
  BY ProofAssumption
<1>9. /\ log' \in [Rows -> RowType]
      /\ RowsAreNumbered'
      /\ \A r \in Rows : RowIsBacked(r)'
      /\ DOMAIN f \subseteq Rows /\ DOMAIN f \subseteq Used'
      /\ \A r \in DOMAIN f : /\ log'[r].claim \in S /\ log'[r].status = row.status
                             /\ log'[r].by = row.by /\ log'[r].hash = row.hash
                             /\ log'[r].hashB = row.hashB
      /\ \A r \in Used : r \in Used' /\ log'[r] = log[r]
  <2>1. log' = Book(f, row)
    BY <1>4 DEF row
  <2>2. NamedForGood(row.hash) /\ NamedForGood(row.hashB)
    BY <1>5, <1>6
  <2>3. row.status \notin {"none", "succeeded"}
    BY <1>6
  <2> QED
    BY <1>2, <1>6, <1>7, <1>8, <2>1, <2>2, <2>3, BookingBacksRows
<1>10. CASE status = "offline"
  BY <1>1, <1>2, <1>4, <1>7, <1>9, <1>10, AskingKeeps
<1>11. CASE status # "offline"
  <2> DEFINE rows == DOMAIN f
             job == TransitionJob(old, S, rows)
  <2>1. rows \in SUBSET Rows /\ S \in SUBSET Claims
    BY <1>9 DEF Claims
  <2> HIDE DEF rows
  <2>2. /\ job \in JobType /\ job.rows = rows /\ job.claims = S
        /\ job.hash = old.hash /\ job.hashB = passport.hash
        /\ job.tx = "inflight" /\ job.runner = "waits"
    BY <1>3, <1>5, <2>1 DEF TransitionJob, JobType
  <2>3. jobs' = [jobs EXCEPT ![FreeJob] = job]
    BY <1>4, <1>11 DEF rows
  <2> HIDE DEF job
  <2>4. PICK j \in Rows : j = FreeJob
    BY <1>2, FreeJobIsFree
  <2>5. jobs' \in [Rows -> JobType] /\ jobs'[j] = job /\ \A k \in Rows \ {j} : jobs'[k] = jobs[k]
    BY <1>1, <2>2, <2>3, <2>4
  <2>6. /\ rows \in SUBSET Used'
        /\ \A r \in rows : /\ log'[r].claim \in S /\ log'[r].hash = old.hash
                           /\ log'[r].hashB = passport.hash
    BY <1>6, <1>9 DEF rows
  <2>7. JobIsBacked(j)'
    BY <2>2, <2>5, <2>6, NewJobIsBacked
  <2> QED
    BY <1>1, <1>2, <1>7, <1>9, <2>5, <2>7, AskingKeeps
<1> QED
  BY <1>10, <1>11

LEMMA JobRunsElsewhere ==
  ASSUME NEW job \in JobType, NEW vault \in Vaults
  PROVE  LET it == [job EXCEPT !.vault = vault, !.runner = "browser"]
         IN  /\ it \in JobType
             /\ it.rows = job.rows /\ it.claims = job.claims /\ it.hashB = job.hashB
             /\ it.tx = job.tx /\ it.runner = "browser"
BY DEF JobType

LEMMA WalletProofKeepsInvariant ==
  ASSUME ClaimsInvariant, NEW c \in Wallets, WalletProves(c)
  PROVE  ClaimsInvariant'
<1>1. /\ passport \in PassportType /\ env \in Vaults /\ jobs \in [Rows -> JobType]
      /\ log \in [Rows -> RowType] /\ RowsAreNumbered
  BY DEF ClaimsInvariant, ProofTypeOK
<1>2. /\ UNCHANGED <<content, archived, booked, env, anchor, records, claims, log>>
      /\ ReadTree(FALSE, FALSE) /\ FreeJobs # {}
  BY DEF WalletProves, ReadMaterial, anchoring, chain
<1>3. /\ PassportPart'
      /\ passport' \in PassportType /\ drawn' \in 0..MaxSeeds /\ TreeNow \in Tree
      /\ \A h \in Contents \cup {None} : NamedForGood(h) => NamedForGood(h)'
  BY <1>2, ReadingKeepsPassport
<1> DEFINE job == [ProofJob("wallet", {c}, {}, FALSE) EXCEPT !.vault = env, !.runner = "browser"]
<1>4. /\ job \in JobType /\ job.rows = {} /\ job.claims = {c} /\ job.hashB = None
      /\ job.tx = "inflight" /\ job.runner = "browser"
  <2>1. VaultFor \in Vaults /\ passport.hash \in Contents
    BY <1>1 DEF VaultFor, PassportType
  <2>2. {c} \in SUBSET Claims
    BY ProofAssumption DEF Claims
  <2> DEFINE server == ProofJob("wallet", {c}, {}, FALSE)
  <2>3. /\ server \in JobType /\ server.rows = {} /\ server.claims = {c}
        /\ server.hashB = None /\ server.tx = "inflight"
    <3>1. server = [kind |-> "wallet", rows |-> {}, claims |-> {c}, vault |-> VaultFor,
                    hash |-> passport.hash, hashB |-> None, tree |-> TreeNow, treeB |-> None,
                    rootIn |-> FALSE, tx |-> "inflight", runner |-> "waits"]
      BY DEF ProofJob
    <3> HIDE DEF server
    <3> QED
      BY <1>3, <2>1, <2>2, <3>1 DEF JobType
  <2> HIDE DEF server
  <2>4. LET it == [server EXCEPT !.vault = env, !.runner = "browser"]
        IN  /\ it \in JobType /\ it.rows = {} /\ it.claims = {c} /\ it.hashB = None
            /\ it.tx = "inflight" /\ it.runner = "browser"
    BY <1>1, <2>3, JobRunsElsewhere
  <2> QED
    BY <2>4 DEF server
<1>5. jobs' = [jobs EXCEPT ![FreeJob] = job]
  BY DEF WalletProves
<1> HIDE DEF job
<1>6. PICK j \in Rows : j = FreeJob
  BY <1>2, FreeJobIsFree
<1>7. jobs' \in [Rows -> JobType] /\ jobs'[j] = job /\ \A k \in Rows \ {j} : jobs'[k] = jobs[k]
  BY <1>1, <1>4, <1>5, <1>6
<1>8. JobIsBacked(j)'
  <2>1. {} \in SUBSET Used' /\ {c} \subseteq FieldClaims
    BY ProofAssumption
  <2> QED
    BY <1>4, <1>7, <2>1, NewJobIsBacked
<1>9. \A r \in Rows : RowIsBacked(r)'
  BY <1>1, <1>2, <1>3, RowKept DEF ClaimsInvariant
<1>10. Used' = Used /\ RowsAreNumbered'
  BY <1>1, <1>2 DEF Used, RowsAreNumbered
<1> QED
  BY <1>1, <1>2, <1>3, <1>7, <1>8, <1>9, <1>10, AskingKeeps

\* A wallet's call that is reported: its rows are tracked from then on.
LEMMA RecordingKeepsInvariant ==
  ASSUME ClaimsInvariant, NEW j \in Rows, RecordWalletProof(j)
  PROVE  ClaimsInvariant'
<1>1. /\ passport \in PassportType /\ env \in Vaults /\ jobs \in [Rows -> JobType]
      /\ drawn \in 0..MaxSeeds
  BY DEF ClaimsInvariant, ProofTypeOK
<1>2. /\ UNCHANGED <<passport, content, archived, booked, env, anchor, records, claims, drawn>>
      /\ jobs[j].runner = "browser"
  BY DEF RecordWalletProof, anchoring, chain
<1>3. PassportPart' /\ \A h \in Contents \cup {None} : NamedForGood(h) => NamedForGood(h)'
  BY <1>2, PassportPartStays DEF ClaimsInvariant, PassportPart
<1>4. JobIsBacked(j) /\ jobs[j] \in JobType
  BY <1>1 DEF ClaimsInvariant
<1> DEFINE S == jobs[j].claims
<1>5. S \subseteq FieldClaims /\ jobs[j].hashB = None
  BY <1>2, <1>4 DEF JobIsBacked
<1>6. CASE \E f \in Insertions(S) : log' = Book(f, FieldRow("failed")) /\ jobs' = [jobs EXCEPT ![j] = NoJob]
  <2>1. PICK f \in Insertions(S) : log' = Book(f, FieldRow("failed"))
    BY <1>6
  <2>2. /\ FieldRow("failed") \in RowType /\ FieldRow("failed").status = "failed"
        /\ FieldRow("failed").by = "none" /\ FieldRow("failed").hashB = None
    BY FieldRows
  <2>3. /\ log' \in [Rows -> RowType]
        /\ RowsAreNumbered'
        /\ \A r \in Rows : RowIsBacked(r)'
        /\ \A r \in Used : r \in Used' /\ log'[r] = log[r]
    BY <1>2, <1>3, <1>5, <2>1, <2>2, BookingBacksRows
  <2>4. NoJob \in JobType /\ NoJob.rows = {} /\ NoJob.tx = "none" /\ NoJob.runner = "none"
    BY DEF NoJob, JobType
  <2>5. jobs' \in [Rows -> JobType] /\ jobs'[j] = NoJob /\ \A k \in Rows \ {j} : jobs'[k] = jobs[k]
    BY <1>1, <1>6, <2>4
  <2>6. JobIsBacked(j)'
    <3>1. {} \in SUBSET Used'
      OBVIOUS
    <3> QED
      BY <2>4, <2>5, <3>1, NewJobIsBacked
  <2> QED
    BY <1>1, <1>2, <1>3, <2>3, <2>5, <2>6, AskingKeeps
<1>7. CASE \E f \in Insertions(S) :
             /\ log' = Book(f, [FieldRow("pending") EXCEPT
                          !.vault = IF passport.vault = None THEN env ELSE passport.vault])
             /\ jobs' = [jobs EXCEPT ![j].rows = DOMAIN f, ![j].runner = "tracks"]
  <2> DEFINE row == [FieldRow("pending") EXCEPT
                       !.vault = IF passport.vault = None THEN env ELSE passport.vault]
  <2>1. PICK f \in Insertions(S) :
          log' = Book(f, row) /\ jobs' = [jobs EXCEPT ![j].rows = DOMAIN f, ![j].runner = "tracks"]
    BY <1>7
  <2>2. row \in RowType /\ row.status = "pending" /\ row.by = "none" /\ row.hashB = None
    <3>1. /\ FieldRow("pending") \in RowType /\ FieldRow("pending").status = "pending"
          /\ FieldRow("pending").by = "none" /\ FieldRow("pending").hashB = None
      BY FieldRows
    <3>2. (IF passport.vault = None THEN env ELSE passport.vault) \in Vaults \cup {None}
      BY <1>1 DEF PassportType
    <3> QED
      BY <3>1, <3>2 DEF RowType
  <2> HIDE DEF row
  <2>3. /\ log' \in [Rows -> RowType]
        /\ RowsAreNumbered'
        /\ \A r \in Rows : RowIsBacked(r)'
        /\ DOMAIN f \subseteq Rows /\ DOMAIN f \subseteq Used'
        /\ \A r \in DOMAIN f : /\ log'[r].claim \in S /\ log'[r].status = row.status
                               /\ log'[r].by = row.by /\ log'[r].hash = row.hash
                               /\ log'[r].hashB = row.hashB
        /\ \A r \in Used : r \in Used' /\ log'[r] = log[r]
    BY <1>2, <1>3, <1>5, <2>1, <2>2, BookingBacksRows
  <2> DEFINE rows == DOMAIN f
  <2>4. jobs' = [jobs EXCEPT ![j] = [jobs[j] EXCEPT !.rows = rows, !.runner = "tracks"]]
    BY <1>1, <2>1
  <2>5. rows \in SUBSET Rows /\ rows \in SUBSET Used'
    BY <2>3
  <2>6. \A r \in rows : log'[r].claim \in S /\ log'[r].hashB = None
    BY <2>2, <2>3
  <2> HIDE DEF rows
  <2>7. /\ jobs' \in [Rows -> JobType] /\ \A k \in Rows \ {j} : jobs'[k] = jobs[k]
        /\ jobs'[j].rows = rows /\ jobs'[j].runner = "tracks" /\ jobs'[j].claims = S
        /\ jobs'[j].hashB = None /\ jobs'[j].tx = jobs[j].tx
    <3> DEFINE new == [jobs[j] EXCEPT !.rows = rows, !.runner = "tracks"]
    <3>1. /\ new \in JobType /\ new.rows = rows /\ new.runner = "tracks" /\ new.claims = S
          /\ new.hashB = jobs[j].hashB /\ new.tx = jobs[j].tx
      BY <1>4, <2>5 DEF JobType
    <3> HIDE DEF new
    <3>2. jobs' = [jobs EXCEPT ![j] = new]
      BY <2>4 DEF new
    <3> QED
      BY <1>1, <1>5, <3>1, <3>2
  <2>8. JobIsBacked(j)'
    <3>1. jobs[j].tx = "landed" => \A c \in S : OnChain(j, c) \in claims
      BY <1>4 DEF JobIsBacked
    <3>2. \A c \in S : OnChain(j, c)' = OnChain(j, c)
      BY <1>1, <1>4, <2>4 DEF OnChain, JobType
    <3> QED
      BY <1>2, <1>5, <2>5, <2>6, <2>7, <3>1, <3>2 DEF JobIsBacked
  <2> QED
    BY <1>1, <1>2, <1>3, <2>3, <2>7, <2>8, AskingKeeps
<1> QED
  BY <1>6, <1>7 DEF RecordWalletProof

-----------------------------------------------------------------------------
(* Settlement *)

\* A step leaves the row r as it is, or closes it with good reason.
RowCloses(r) ==
  \/ log'[r] = log[r]
  \/ /\ r \in Used /\ log'[r].status # "none"
     /\ log'[r].claim = log[r].claim /\ log'[r].hash = log[r].hash /\ log'[r].hashB = log[r].hashB
     /\ \/ log'[r].status = "failed" /\ log'[r].by = "none"
        \/ /\ log'[r].by = "chain"
           /\ \E v \in Vaults : [vault |-> v, hash |-> log[r].hash, hashB |-> log[r].hashB,
                                 claim |-> log[r].claim] \in claims
        \/ log'[r].by = "transaction" /\ log[r].claim \in FieldClaims

\* Rows that are closed with good reason, and jobs that are backed or left.
LEMMA ClosingKeeps ==
  ASSUME ClaimsInvariant, UNCHANGED <<passport, content, archived, anchor, records, claims, drawn>>,
         env' \in Vaults, booked' \in BOOLEAN, booked => booked',
         log' \in [Rows -> RowType], \A r \in Rows : RowCloses(r),
         jobs' \in [Rows -> JobType], \A j \in Rows : jobs'[j] = jobs[j] \/ JobIsBacked(j)'
  PROVE  ClaimsInvariant'
<1>1. ProofTypeOK'
  BY DEF ClaimsInvariant, ProofTypeOK
<1>2. PassportPart' /\ \A h \in Contents \cup {None} : NamedForGood(h) => NamedForGood(h)'
  BY PassportPartStays DEF ClaimsInvariant, PassportPart
<1>3. ASSUME NEW r \in Rows
      PROVE  /\ r \in Used' <=> r \in Used
             /\ log'[r].claim = log[r].claim /\ log'[r].hash = log[r].hash
             /\ log'[r].hashB = log[r].hashB
  BY DEF RowCloses, Used
<1>4. Used' = Used
  BY <1>3 DEF Used
<1>5. RowsAreNumbered'
  BY <1>4 DEF ClaimsInvariant, RowsAreNumbered
<1>6. log \in [Rows -> RowType]
  BY DEF ClaimsInvariant, ProofTypeOK
<1>7. ASSUME NEW r \in Rows
      PROVE  RowIsBacked(r)'
  <2>1. RowIsBacked(r)
    BY DEF ClaimsInvariant
  <2>2. CASE log'[r] = log[r]
    BY <1>2, <1>6, <2>1, <2>2, RowKept
  <2>3. CASE log'[r] # log[r]
    <3>1. /\ r \in Used
          /\ \/ log'[r].status = "failed" /\ log'[r].by = "none"
             \/ /\ log'[r].by = "chain"
                /\ \E v \in Vaults : [vault |-> v, hash |-> log[r].hash, hashB |-> log[r].hashB,
                                      claim |-> log[r].claim] \in claims
             \/ log'[r].by = "transaction" /\ log[r].claim \in FieldClaims
      BY <2>3 DEF RowCloses
    <3>2. log[r].hash \in Contents \cup {None} /\ log[r].hashB \in Contents \cup {None}
      BY <1>6 DEF RowType
    <3>3. log'[r].claim \in TransitionClaims =>
            /\ log'[r].by # "transaction"
            /\ NamedForGood(log[r].hash)' /\ NamedForGood(log[r].hashB)'
      <4>1. SUFFICES ASSUME log[r].claim \in TransitionClaims
                     PROVE  /\ log'[r].by # "transaction"
                            /\ NamedForGood(log[r].hash)' /\ NamedForGood(log[r].hashB)'
        BY <1>3
      <4>2. NamedForGood(log[r].hash) /\ NamedForGood(log[r].hashB)
        BY <2>1, <3>1, <4>1 DEF RowIsBacked
      <4>3. NamedForGood(log[r].hash)' /\ NamedForGood(log[r].hashB)'
        BY <1>3, <4>2 DEF NamedForGood
      <4> QED
        BY <3>1, <4>1, <4>3, ProofAssumption
    <3>4. Succeeded(r)' /\ log'[r].by # "transaction" =>
            \E v \in Vaults : [vault |-> v, hash |-> log'[r].hash, hashB |-> log'[r].hashB,
                               claim |-> log'[r].claim] \in claims'
      BY <1>3, <3>1 DEF Succeeded
    <3> QED
      BY <1>3, <2>1, <3>1, <3>3, <3>4 DEF RowIsBacked
  <2> QED
    BY <2>2, <2>3
<1>8. ASSUME NEW j \in Rows, jobs'[j] = jobs[j]
      PROVE  JobIsBacked(j)'
  <2>1. JobIsBacked(j) /\ Used \subseteq Rows
    BY DEF ClaimsInvariant, Used
  <2> QED
    BY <1>3, <1>8, <2>1, JobKept
<1> QED
  BY <1>1, <1>2, <1>5, <1>7, <1>8 DEF ClaimsInvariant, PassportPart

\* A job that loses rows, or its runner.
LEMMA JobShrinks ==
  ASSUME NEW j \in Rows, JobIsBacked(j), claims \subseteq claims',
         \A r \in Used : /\ r \in Used'
                         /\ log'[r].claim = log[r].claim /\ log'[r].hash = log[r].hash
                         /\ log'[r].hashB = log[r].hashB,
         jobs'[j].rows \subseteq jobs[j].rows, jobs'[j].claims = jobs[j].claims,
         jobs'[j].vault = jobs[j].vault, jobs'[j].hash = jobs[j].hash,
         jobs'[j].hashB = jobs[j].hashB, jobs'[j].runner \in {jobs[j].runner, "none"},
         jobs'[j].tx = "landed" =>
           jobs[j].tx = "landed" \/ \A c \in jobs[j].claims : OnChain(j, c) \in claims'
  PROVE  JobIsBacked(j)'
<1>1. \A c : OnChain(j, c)' = OnChain(j, c)
  BY DEF OnChain
<1>2. jobs'[j].tx = "landed" => \A c \in jobs'[j].claims : OnChain(j, c)' \in claims'
  BY <1>1 DEF JobIsBacked
<1>3. \A r \in jobs[j].rows : r \in Used
  BY DEF JobIsBacked
<1> QED
  BY <1>2, <1>3 DEF JobIsBacked

LEMMA NoJobIsBacked ==
  /\ NoJob \in JobType
  /\ \A j \in Rows : jobs'[j] = NoJob => JobIsBacked(j)'
<1>1. NoJob \in JobType /\ NoJob.rows = {} /\ NoJob.tx = "none" /\ NoJob.runner = "none"
  BY DEF NoJob, JobType
<1> QED
  BY <1>1 DEF JobIsBacked

LEMMA LandProofKeepsInvariant ==
  ASSUME ClaimsInvariant, NEW j \in Rows, LandProof(j)
  PROVE  ClaimsInvariant'
<1>1. /\ jobs \in [Rows -> JobType] /\ log \in [Rows -> RowType]
      /\ records \subseteq [vault : Vaults, hash : Contents, root : Tree]
      /\ claims \subseteq [vault : Vaults, hash : Contents, hashB : Contents \cup {None},
                           claim : Claims]
  BY DEF ClaimsInvariant, ProofTypeOK
<1>2. jobs[j] \in JobType
  BY <1>1
<1>3. UNCHANGED <<passport, content, archived, booked, env, anchor, records, log, drawn>>
  BY DEF LandProof, anchoring
<1>4. PICK S \in SUBSET jobs[j].claims :
        /\ claims' = claims \cup {OnChain(j, c) : c \in S}
        /\ jobs' = IF Abandoned(j) THEN [jobs EXCEPT ![j] = NoJob]
                   ELSE [jobs EXCEPT ![j].tx = IF S = jobs[j].claims THEN "landed" ELSE "partial"]
  BY DEF LandProof
<1>5. [vault |-> jobs[j].vault, hash |-> jobs[j].hash, root |-> jobs[j].tree] \in records
  BY DEF LandProof, Provable
<1>6. jobs[j].vault \in Vaults /\ jobs[j].hash \in Contents
  BY <1>1, <1>5
<1>7. \A c \in S : /\ OnChain(j, c) \in [vault : Vaults, hash : Contents,
                                        hashB : Contents \cup {None}, claim : Claims]
                   /\ OnChain(j, c).vault = jobs[j].vault
  BY <1>2, <1>6 DEF OnChain, JobType
<1>8. jobs' \in [Rows -> JobType] /\ \A k \in Rows \ {j} : jobs'[k] = jobs[k]
  <2>1. NoJob \in JobType
    BY NoJobIsBacked
  <2>2. \A tx \in {"landed", "partial"} : [jobs[j] EXCEPT !.tx = tx] \in JobType
    BY <1>2 DEF JobType
  <2> QED
    BY <1>1, <1>4, <2>1, <2>2
<1>9. ProofTypeOK'
  <2>1. claims' \subseteq [vault : Vaults, hash : Contents, hashB : Contents \cup {None},
                           claim : Claims]
    BY <1>1, <1>4, <1>7
  <2> QED
    BY <1>3, <1>8, <2>1 DEF ClaimsInvariant, ProofTypeOK
<1>10. PassportPart'
  <2>1. PassportIsKept' /\ OpeningsAreKept'
    BY <1>3 DEF ClaimsInvariant, PassportIsKept, OpeningsAreKept, OpeningsReproduceAnchors, Opens
  <2>2. \A x \in claims' : \E rec \in records : rec.vault = x.vault
    <3>1. \A c \in S : \E rec \in records : rec.vault = OnChain(j, c).vault
      BY <1>5, <1>7
    <3> QED
      BY <1>4, <3>1 DEF ClaimsInvariant, VaultsAreKnown
  <2> QED
    BY <1>3, <2>1, <2>2 DEF ClaimsInvariant, VaultsAreKnown, VaultsOf, PassportPart
<1>11. \A h \in Contents \cup {None} : NamedForGood(h) => NamedForGood(h)'
  BY <1>3 DEF NamedForGood
<1>12. claims \subseteq claims' /\ Used' = Used
  BY <1>3, <1>4 DEF Used
<1>13. \A r \in Rows : RowIsBacked(r)'
  BY <1>1, <1>3, <1>11, <1>12, RowKept DEF ClaimsInvariant
<1>14. ASSUME NEW k \in Rows \ {j}
       PROVE  JobIsBacked(k)'
  BY <1>3, <1>8, <1>12, JobKept DEF ClaimsInvariant
<1>15. JobIsBacked(j)'
  <2>1. CASE Abandoned(j)
    BY <1>1, <1>4, <2>1, NoJobIsBacked
  <2>2. CASE ~Abandoned(j)
    <3> DEFINE tx == IF S = jobs[j].claims THEN "landed" ELSE "partial"
    <3>1. jobs'[j] = [jobs[j] EXCEPT !.tx = tx]
      BY <1>1, <1>4, <2>2
    <3>2. tx = "landed" => \A c \in jobs[j].claims : OnChain(j, c) \in claims'
      BY <1>4
    <3> HIDE DEF tx
    <3>3. /\ jobs'[j].rows = jobs[j].rows /\ jobs'[j].claims = jobs[j].claims
          /\ jobs'[j].vault = jobs[j].vault /\ jobs'[j].hash = jobs[j].hash
          /\ jobs'[j].hashB = jobs[j].hashB /\ jobs'[j].runner = jobs[j].runner
          /\ jobs'[j].tx = tx
      BY <1>2, <3>1 DEF JobType
    <3> QED
      BY <1>3, <1>12, <3>2, <3>3, JobShrinks DEF ClaimsInvariant
  <2> QED
    BY <2>1, <2>2
<1>16. RowsAreNumbered'
  BY <1>12 DEF ClaimsInvariant, RowsAreNumbered
<1> QED
  BY <1>9, <1>10, <1>13, <1>14, <1>15, <1>16 DEF ClaimsInvariant, PassportPart

LEMMA RefusalKeepsInvariant ==
  ASSUME ClaimsInvariant, NEW j \in Rows, RefuseProof(j)
  PROVE  ClaimsInvariant'
<1>1. jobs \in [Rows -> JobType] /\ log \in [Rows -> RowType] /\ env \in Vaults /\ booked \in BOOLEAN
  BY DEF ClaimsInvariant, ProofTypeOK
<1>2. jobs[j] \in JobType
  BY <1>1
<1>3. /\ UNCHANGED <<passport, content, archived, booked, env, anchor, records, claims, log, drawn>>
      /\ jobs' = [jobs EXCEPT ![j] = [jobs[j] EXCEPT !.tx = "refused"]]
  BY <1>1 DEF RefuseProof, anchoring, chain
<1>4. /\ [jobs[j] EXCEPT !.tx = "refused"] \in JobType
      /\ jobs'[j] = [jobs[j] EXCEPT !.tx = "refused"]
  BY <1>1, <1>2, <1>3 DEF JobType
<1>5. jobs' \in [Rows -> JobType] /\ \A k \in Rows \ {j} : jobs'[k] = jobs[k]
  BY <1>1, <1>3, <1>4
<1>6. /\ jobs'[j].rows = jobs[j].rows /\ jobs'[j].claims = jobs[j].claims
      /\ jobs'[j].vault = jobs[j].vault /\ jobs'[j].hash = jobs[j].hash
      /\ jobs'[j].hashB = jobs[j].hashB /\ jobs'[j].runner = jobs[j].runner
      /\ jobs'[j].tx = "refused"
  BY <1>2, <1>4 DEF JobType
<1>7. JobIsBacked(j)'
  BY <1>3, <1>6, JobShrinks DEF ClaimsInvariant, Used
<1>8. \A r \in Rows : RowCloses(r)
  BY <1>3 DEF RowCloses
<1> QED
  BY <1>1, <1>3, <1>5, <1>7, <1>8, ClosingKeeps

\* What a runner's job names of its rows, and that a claim of it is on the
\* chain as the row says.
LEMMA RunnerKnows ==
  ASSUME ClaimsInvariant, NEW j \in Rows, jobs[j].runner = "waits", NEW r \in jobs[j].rows
  PROVE  /\ r \in Used /\ r \in Rows /\ log[r].claim \in jobs[j].claims
         /\ OnChain(j, log[r].claim) \in claims =>
              \E v \in Vaults : [vault |-> v, hash |-> log[r].hash, hashB |-> log[r].hashB,
                                 claim |-> log[r].claim] \in claims
<1>1. JobIsBacked(j)
  BY DEF ClaimsInvariant
<1>2. /\ r \in Used /\ r \in Rows /\ log[r].claim \in jobs[j].claims
      /\ log[r].hash = jobs[j].hash /\ log[r].hashB = jobs[j].hashB
  BY <1>1 DEF JobIsBacked, Used
<1>3. SUFFICES ASSUME OnChain(j, log[r].claim) \in claims
               PROVE  \E v \in Vaults : [vault |-> v, hash |-> log[r].hash,
                        hashB |-> log[r].hashB, claim |-> log[r].claim] \in claims
  BY <1>2
<1>4. OnChain(j, log[r].claim) = [vault |-> jobs[j].vault, hash |-> log[r].hash,
                                  hashB |-> log[r].hashB, claim |-> log[r].claim]
  BY <1>2 DEF OnChain
<1>5. claims \subseteq [vault : Vaults, hash : Contents, hashB : Contents \cup {None},
                        claim : Claims]
  BY DEF ClaimsInvariant, ProofTypeOK
<1>6. jobs[j].vault \in Vaults
  BY <1>3, <1>4, <1>5
<1> QED
  BY <1>3, <1>4, <1>6

LEMMA SuccessKeepsInvariant ==
  ASSUME ClaimsInvariant, NEW j \in Rows, ProofSucceeds(j)
  PROVE  ClaimsInvariant'
<1>1. /\ jobs \in [Rows -> JobType] /\ log \in [Rows -> RowType] /\ env \in Vaults
      /\ booked \in BOOLEAN
  BY DEF ClaimsInvariant, ProofTypeOK
<1>2. jobs[j] \in JobType /\ JobIsBacked(j)
  BY <1>1 DEF ClaimsInvariant
<1>3. /\ UNCHANGED <<passport, content, archived, env, anchor, records, claims, drawn>>
      /\ jobs' = [jobs EXCEPT ![j] = NoJob]
      /\ log' = Close(jobs[j].rows, "succeeded", "chain")
      /\ jobs[j].runner = "waits" /\ jobs[j].tx = "landed"
  BY DEF ProofSucceeds, anchoring, chain
<1>4. booked' \in BOOLEAN /\ (booked => booked')
  <2>1. jobs[j].rootIn \in BOOLEAN
    BY <1>2 DEF JobType
  <2> QED
    BY <1>1, <2>1 DEF ProofSucceeds
<1>5. jobs' \in [Rows -> JobType] /\ jobs'[j] = NoJob /\ \A k \in Rows \ {j} : jobs'[k] = jobs[k]
  BY <1>1, <1>3, NoJobIsBacked
<1>6. JobIsBacked(j)'
  BY <1>5, NoJobIsBacked
<1>7. ASSUME NEW r \in Rows
      PROVE  RowCloses(r) /\ log'[r] \in RowType
  <2>1. CASE r \notin jobs[j].rows
    BY <1>1, <1>3, <2>1 DEF RowCloses, Close
  <2>2. CASE r \in jobs[j].rows
    <3>1. log'[r] = [log[r] EXCEPT !.status = "succeeded", !.by = "chain"]
      BY <1>3, <2>2 DEF Close
    <3>2. /\ log'[r] \in RowType /\ log'[r].status = "succeeded" /\ log'[r].by = "chain"
          /\ log'[r].claim = log[r].claim /\ log'[r].hash = log[r].hash
          /\ log'[r].hashB = log[r].hashB
      BY <1>1, <3>1 DEF RowType
    <3>3. r \in Used /\ log[r].claim \in jobs[j].claims
      BY <1>3, <2>2, RunnerKnows
    <3>4. OnChain(j, log[r].claim) \in claims
      BY <1>2, <1>3, <3>3 DEF JobIsBacked
    <3>5. \E v \in Vaults : [vault |-> v, hash |-> log[r].hash, hashB |-> log[r].hashB,
                             claim |-> log[r].claim] \in claims
      BY <1>3, <2>2, <3>4, RunnerKnows
    <3> QED
      BY <3>2, <3>3, <3>5 DEF RowCloses
  <2> QED
    BY <2>1, <2>2
<1>8. log' \in [Rows -> RowType]
  BY <1>3, <1>7 DEF Close
<1> QED
  BY <1>1, <1>3, <1>4, <1>5, <1>6, <1>7, <1>8, ClosingKeeps

\* A failed job closes its rows as failed, those apart whose claims it finds.
LEMMA FailureKeepsInvariant ==
  ASSUME ClaimsInvariant, NEW j \in Rows, ProofFails(j)
  PROVE  ClaimsInvariant'
<1>1. /\ jobs \in [Rows -> JobType] /\ log \in [Rows -> RowType] /\ env \in Vaults
      /\ booked \in BOOLEAN
  BY DEF ClaimsInvariant, ProofTypeOK
<1>2. jobs[j] \in JobType /\ JobIsBacked(j)
  BY <1>1 DEF ClaimsInvariant
<1>3. /\ UNCHANGED <<passport, content, archived, booked, env, anchor, records, claims, drawn>>
      /\ jobs[j].runner = "waits"
  BY DEF ProofFails, anchoring, chain
<1>4. PICK found \in SUBSET Asked(j) :
        log' = [r \in Rows |-> IF r \in found THEN Close(found, "succeeded", "chain")[r]
                               ELSE Close(jobs[j].rows, "failed", "none")[r]]
  BY DEF ProofFails
<1>5. ASSUME NEW r \in Rows
      PROVE  RowCloses(r) /\ log'[r] \in RowType
  <2>1. CASE r \in found
    <3>1. r \in jobs[j].rows /\ OnChain(j, log[r].claim) \in claims
      BY <2>1 DEF Asked, CrossRootConfirmed, ClaimLanded
    <3>2. log'[r] = [log[r] EXCEPT !.status = "succeeded", !.by = "chain"]
      BY <1>4, <2>1 DEF Close
    <3>3. /\ log'[r] \in RowType /\ log'[r].status = "succeeded" /\ log'[r].by = "chain"
          /\ log'[r].claim = log[r].claim /\ log'[r].hash = log[r].hash
          /\ log'[r].hashB = log[r].hashB
      BY <1>1, <3>2 DEF RowType
    <3>4. /\ r \in Used
          /\ \E v \in Vaults : [vault |-> v, hash |-> log[r].hash, hashB |-> log[r].hashB,
                                claim |-> log[r].claim] \in claims
      BY <1>3, <3>1, RunnerKnows
    <3> QED
      BY <3>3, <3>4 DEF RowCloses
  <2>2. CASE r \notin found /\ r \in jobs[j].rows
    <3>1. log'[r] = [log[r] EXCEPT !.status = "failed", !.by = "none"]
      BY <1>4, <2>2 DEF Close
    <3>2. /\ log'[r] \in RowType /\ log'[r].status = "failed" /\ log'[r].by = "none"
          /\ log'[r].claim = log[r].claim /\ log'[r].hash = log[r].hash
          /\ log'[r].hashB = log[r].hashB
      BY <1>1, <3>1 DEF RowType
    <3>3. r \in Used
      BY <1>3, <2>2, RunnerKnows
    <3> QED
      BY <3>2, <3>3 DEF RowCloses
  <2>3. CASE r \notin found /\ r \notin jobs[j].rows
    <3>1. log'[r] = log[r]
      BY <1>4, <2>3 DEF Close
    <3> QED
      BY <1>1, <3>1 DEF RowCloses
  <2> QED
    BY <2>1, <2>2, <2>3
<1>6. log' \in [Rows -> RowType]
  BY <1>4, <1>5
<1>7. CASE jobs' = [jobs EXCEPT ![j] = NoJob]
  <2>1. jobs' \in [Rows -> JobType] /\ jobs'[j] = NoJob /\ \A k \in Rows \ {j} : jobs'[k] = jobs[k]
    BY <1>1, <1>7, NoJobIsBacked
  <2>2. JobIsBacked(j)'
    BY <2>1, NoJobIsBacked
  <2> QED
    BY <1>1, <1>3, <1>5, <1>6, <2>1, <2>2, ClosingKeeps
<1>8. CASE jobs' = [jobs EXCEPT ![j].runner = "none", ![j].rows = {}]
  <2> DEFINE new == [jobs[j] EXCEPT !.runner = "none", !.rows = {}]
  <2>1. /\ new \in JobType /\ new.rows = {} /\ new.claims = jobs[j].claims
        /\ new.vault = jobs[j].vault /\ new.hash = jobs[j].hash
        /\ new.hashB = jobs[j].hashB /\ new.runner = "none" /\ new.tx = jobs[j].tx
    BY <1>2 DEF JobType
  <2>2. jobs' = [jobs EXCEPT ![j] = new]
    BY <1>1, <1>8
  <2> HIDE DEF new
  <2>3. jobs' \in [Rows -> JobType] /\ jobs'[j] = new /\ \A k \in Rows \ {j} : jobs'[k] = jobs[k]
    BY <1>1, <2>1, <2>2
  <2>4. JobIsBacked(j)'
    <3>1. \A r \in Used : /\ r \in Used'
                          /\ log'[r].claim = log[r].claim /\ log'[r].hash = log[r].hash
                          /\ log'[r].hashB = log[r].hashB
      BY <1>5 DEF RowCloses, Used
    <3> QED
      BY <1>2, <1>3, <2>1, <2>3, <3>1, JobShrinks
  <2> QED
    BY <1>1, <1>3, <1>5, <1>6, <2>3, <2>4, ClosingKeeps
<1> QED
  BY <1>7, <1>8 DEF ProofFails

\* A row that is tracked no more leaves its job backed.
LEMMA UntrackedJob ==
  ASSUME ClaimsInvariant, NEW j \in Rows, NEW r, jobs' = Untrack(j, r), claims' = claims,
         \A q \in Rows : RowCloses(q)
  PROVE  /\ jobs' \in [Rows -> JobType]
         /\ \A k \in Rows : jobs'[k] = jobs[k] \/ JobIsBacked(k)'
<1>1. jobs \in [Rows -> JobType]
  BY DEF ClaimsInvariant, ProofTypeOK
<1>2. jobs[j] \in JobType /\ JobIsBacked(j)
  BY <1>1 DEF ClaimsInvariant
<1>3. \A q \in Used : /\ q \in Used'
                      /\ log'[q].claim = log[q].claim /\ log'[q].hash = log[q].hash
                      /\ log'[q].hashB = log[q].hashB
  BY DEF RowCloses, Used
<1>4. CASE jobs[j].rows # {r}
  <2> DEFINE new == [jobs[j] EXCEPT !.rows = jobs[j].rows \ {r}]
  <2>1. /\ new \in JobType /\ new.rows \subseteq jobs[j].rows /\ new.claims = jobs[j].claims
        /\ new.vault = jobs[j].vault /\ new.hash = jobs[j].hash
        /\ new.hashB = jobs[j].hashB /\ new.runner = jobs[j].runner /\ new.tx = jobs[j].tx
    BY <1>2 DEF JobType
  <2>2. jobs' = [jobs EXCEPT ![j] = new]
    BY <1>1, <1>4 DEF Untrack
  <2> HIDE DEF new
  <2>3. jobs' \in [Rows -> JobType] /\ jobs'[j] = new /\ \A k \in Rows \ {j} : jobs'[k] = jobs[k]
    BY <1>1, <2>1, <2>2
  <2>4. JobIsBacked(j)'
    BY <1>2, <1>3, <2>1, <2>3, JobShrinks
  <2> QED
    BY <2>3, <2>4
<1>5. CASE jobs[j].rows = {r} /\ jobs[j].tx = "inflight"
  <2> DEFINE new == [jobs[j] EXCEPT !.rows = {}, !.runner = "none"]
  <2>1. /\ new \in JobType /\ new.rows = {} /\ new.claims = jobs[j].claims
        /\ new.vault = jobs[j].vault /\ new.hash = jobs[j].hash
        /\ new.hashB = jobs[j].hashB /\ new.runner = "none" /\ new.tx = jobs[j].tx
    BY <1>2 DEF JobType
  <2>2. jobs' = [jobs EXCEPT ![j] = new]
    BY <1>1, <1>5 DEF Untrack
  <2> HIDE DEF new
  <2>3. jobs' \in [Rows -> JobType] /\ jobs'[j] = new /\ \A k \in Rows \ {j} : jobs'[k] = jobs[k]
    BY <1>1, <2>1, <2>2
  <2>4. JobIsBacked(j)'
    BY <1>2, <1>3, <2>1, <2>3, JobShrinks
  <2> QED
    BY <2>3, <2>4
<1>6. CASE jobs[j].rows = {r} /\ jobs[j].tx # "inflight"
  <2>1. jobs' = [jobs EXCEPT ![j] = NoJob]
    BY <1>6 DEF Untrack
  <2>2. jobs' \in [Rows -> JobType] /\ jobs'[j] = NoJob /\ \A k \in Rows \ {j} : jobs'[k] = jobs[k]
    BY <1>1, <2>1, NoJobIsBacked
  <2> QED
    BY <2>2, NoJobIsBacked
<1> QED
  BY <1>4, <1>5, <1>6

LEMMA TrackerKeepsInvariant ==
  ASSUME ClaimsInvariant, NEW j \in Rows, NEW r \in Rows, TrackerSettles(j, r) \/ TrackerExpires(j, r)
  PROVE  ClaimsInvariant'
<1>1. /\ jobs \in [Rows -> JobType] /\ log \in [Rows -> RowType] /\ env \in Vaults
      /\ booked \in BOOLEAN
      /\ claims \subseteq [vault : Vaults, hash : Contents, hashB : Contents \cup {None},
                           claim : Claims]
  BY DEF ClaimsInvariant, ProofTypeOK
<1>2. /\ UNCHANGED <<passport, content, archived, booked, env, anchor, records, claims, drawn>>
      /\ jobs' = Untrack(j, r) /\ jobs[j].runner = "tracks" /\ r \in jobs[j].rows
  BY DEF TrackerSettles, TrackerExpires, anchoring, chain
<1>3. /\ r \in Used /\ log[r].claim \in jobs[j].claims /\ log[r].hashB = jobs[j].hashB
      /\ log[r].claim \in FieldClaims
  <2>1. JobIsBacked(j)
    BY DEF ClaimsInvariant
  <2> QED
    BY <1>2, <2>1 DEF JobIsBacked
<1>4. /\ log' \in [Rows -> RowType]
      /\ \A q \in Rows : RowCloses(q)
  <2>1. CASE TrackerExpires(j, r)
    BY <1>1, <2>1 DEF TrackerExpires, RowCloses
  <2>2. CASE TrackerSettles(j, r)
    <3>1. PICK status \in {"succeeded", "failed"}, by \in {"none", "chain", "transaction"} :
            /\ log' = Close({r}, status, by)
            /\ \/ /\ by = "chain"
                  /\ [vault |-> log[r].vault, hash |-> log[r].hash, hashB |-> jobs[j].hashB,
                      claim |-> log[r].claim] \in claims
               \/ by = "transaction"
               \/ status = "failed" /\ by = "none"
      BY <2>2 DEF TrackerSettles
    <3>2. /\ log' = [q \in Rows |-> IF q \in {r} THEN [log[q] EXCEPT !.status = status, !.by = by]
                                    ELSE log[q]]
      BY <3>1 DEF Close
    <3>3. log'[r] = [log[r] EXCEPT !.status = status, !.by = by]
      BY <3>2
    <3>4. /\ log'[r] \in RowType /\ log'[r].status = status /\ log'[r].by = by
          /\ log'[r].claim = log[r].claim /\ log'[r].hash = log[r].hash
          /\ log'[r].hashB = log[r].hashB
      BY <1>1, <3>3 DEF RowType
    <3>5. \A q \in Rows \ {r} : log'[q] = log[q]
      BY <3>2
    <3>6. by = "chain" =>
            \E v \in Vaults : [vault |-> v, hash |-> log[r].hash, hashB |-> log[r].hashB,
                               claim |-> log[r].claim] \in claims
      <4>1. SUFFICES ASSUME by = "chain"
                     PROVE  \E v \in Vaults : [vault |-> v, hash |-> log[r].hash,
                              hashB |-> log[r].hashB, claim |-> log[r].claim] \in claims
        OBVIOUS
      <4>2. [vault |-> log[r].vault, hash |-> log[r].hash, hashB |-> log[r].hashB,
             claim |-> log[r].claim] \in claims
        BY <1>3, <3>1, <4>1
      <4>3. log[r].vault \in Vaults
        BY <1>1, <4>2
      <4> QED
        BY <4>2, <4>3
    <3>7. RowCloses(r)
      BY <1>3, <3>1, <3>4, <3>6 DEF RowCloses
    <3>8. log' \in [Rows -> RowType]
      BY <1>1, <3>2, <3>4, <3>5
    <3> QED
      BY <3>5, <3>7, <3>8 DEF RowCloses
  <2> QED
    BY <2>1, <2>2
<1>5. /\ jobs' \in [Rows -> JobType]
      /\ \A k \in Rows : jobs'[k] = jobs[k] \/ JobIsBacked(k)'
  BY <1>2, <1>4, UntrackedJob
<1> QED
  BY <1>1, <1>2, <1>4, <1>5, ClosingKeeps

\* The sweep closes pending rows as failed; nobody waits for a transaction.
LEMMA RestartKeepsInvariant ==
  ASSUME ClaimsInvariant, Restart
  PROVE  ClaimsInvariant'
<1>1. /\ jobs \in [Rows -> JobType] /\ log \in [Rows -> RowType] /\ booked \in BOOLEAN
  BY DEF ClaimsInvariant, ProofTypeOK
<1>2. /\ UNCHANGED <<passport, content, archived, booked, anchor, records, claims, drawn>>
      /\ env' \in Vaults
      /\ jobs' = [j \in Rows |-> CASE jobs[j].runner = "browser" -> jobs[j]
                                   [] jobs[j].runner # "browser" /\ jobs[j].tx = "inflight" ->
                                        [jobs[j] EXCEPT !.runner = "none", !.rows = {}]
                                   [] OTHER -> NoJob]
  BY DEF Restart, chain
<1>3. PICK old \in SUBSET {r \in Rows : log[r].status = "pending"} :
        log' = Close(old, "failed", "none")
  BY DEF Restart
<1>4. ASSUME NEW r \in Rows
      PROVE  RowCloses(r) /\ log'[r] \in RowType
  <2>1. CASE r \in old
    <3>0. log[r] \in RowType
      BY <1>1
    <3>1. log'[r] = [log[r] EXCEPT !.status = "failed", !.by = "none"]
      BY <1>3, <2>1 DEF Close
    <3>2. /\ log'[r] \in RowType /\ log'[r].status = "failed" /\ log'[r].by = "none"
          /\ log'[r].claim = log[r].claim /\ log'[r].hash = log[r].hash
          /\ log'[r].hashB = log[r].hashB
      BY <3>0, <3>1 DEF RowType
    <3>3. r \in Used
      BY <1>3, <2>1 DEF Used
    <3> QED
      BY <3>2, <3>3 DEF RowCloses
  <2>2. CASE r \notin old
    BY <1>1, <1>3, <2>2 DEF RowCloses, Close
  <2> QED
    BY <2>1, <2>2
<1>5. log' \in [Rows -> RowType]
  BY <1>3, <1>4 DEF Close
<1>6. \A r \in Used : /\ r \in Used'
                      /\ log'[r].claim = log[r].claim /\ log'[r].hash = log[r].hash
                      /\ log'[r].hashB = log[r].hashB
  BY <1>4 DEF RowCloses, Used
<1>7. ASSUME NEW j \in Rows
      PROVE  jobs'[j] \in JobType /\ (jobs'[j] = jobs[j] \/ JobIsBacked(j)')
  <2>1. jobs[j] \in JobType /\ JobIsBacked(j)
    BY <1>1 DEF ClaimsInvariant
  <2>2. CASE jobs[j].runner = "browser"
    BY <1>2, <2>1, <2>2
  <2>3. CASE jobs[j].runner # "browser" /\ jobs[j].tx = "inflight"
    <3>1. jobs'[j] = [jobs[j] EXCEPT !.runner = "none", !.rows = {}]
      BY <1>2, <2>3
    <3>2. /\ jobs'[j] \in JobType /\ jobs'[j].rows = {} /\ jobs'[j].claims = jobs[j].claims
          /\ jobs'[j].vault = jobs[j].vault /\ jobs'[j].hash = jobs[j].hash
          /\ jobs'[j].hashB = jobs[j].hashB /\ jobs'[j].runner = "none"
          /\ jobs'[j].tx = jobs[j].tx
      BY <2>1, <3>1 DEF JobType
    <3> QED
      BY <1>2, <1>6, <2>1, <3>2, JobShrinks
  <2>4. CASE jobs[j].runner # "browser" /\ jobs[j].tx # "inflight"
    <3>1. jobs'[j] = NoJob
      BY <1>2, <2>4
    <3> QED
      BY <3>1, NoJobIsBacked
  <2> QED
    BY <2>2, <2>3, <2>4
<1>8. jobs' \in [Rows -> JobType]
  <2>1. jobs' = [j \in Rows |-> jobs'[j]]
    BY <1>2
  <2> QED
    BY <1>7, <2>1
<1> QED
  BY <1>1, <1>2, <1>4, <1>5, <1>7, <1>8, ClosingKeeps

LEMMA ClaimsStart ==
  ASSUME Init
  PROVE  ClaimsInvariant
<1>1. /\ content \in Contents /\ archived = <<>> /\ booked = FALSE /\ env \in Vaults
      /\ anchor = None /\ records = {} /\ claims = {} /\ drawn = 0
      /\ log = [r \in Rows |-> NoRow] /\ jobs = [r \in Rows |-> NoJob]
      /\ passport = [status |-> "draft", hash |-> content, vault |-> None,
                     named |-> FALSE, opening |-> None]
  BY DEF Init
<1>2. passport \in PassportType /\ passport.status = "draft" /\ passport.vault = None
  BY <1>1 DEF PassportType
<1>3. NoRow \in RowType /\ NoRow.status = "none"
  BY DEF NoRow, RowType
<1>4. /\ NoJob \in JobType
      /\ NoJob.rows = {} /\ NoJob.runner = "none" /\ NoJob.tx = "none"
  BY DEF NoJob, JobType
<1>5. ProofTypeOK
  <2>1. 0 \in 0..MaxSeeds
    BY ProofAssumption
  <2>2. log \in [Rows -> RowType] /\ jobs \in [Rows -> JobType]
    BY <1>1, <1>3, <1>4
  <2>3. archived \in Seq([hash : Contents, vault : Vaults, named : BOOLEAN,
                          opening : Tree \cup {None}])
    BY <1>1
  <2> QED
    BY <1>1, <1>2, <2>1, <2>2, <2>3 DEF ProofTypeOK
<1>6. DOMAIN archived = {}
  BY <1>1
<1>7. PassportIsKept /\ OpeningsAreKept /\ VaultsAreKnown
  BY <1>1, <1>2, <1>6 DEF PassportIsKept, OpeningsAreKept, OpeningsReproduceAnchors, VaultsAreKnown
<1>8. Used = {}
  BY <1>1, <1>3 DEF Used
<1>9. RowsAreNumbered
  <2>1. 0 \in 0..MaxRows /\ 1..0 = {}
    BY ProofAssumption
  <2> QED
    BY <1>8, <2>1 DEF RowsAreNumbered
<1>10. \A r \in Rows : RowIsBacked(r)
  BY <1>8 DEF RowIsBacked
<1>11. \A j \in Rows : JobIsBacked(j)
  BY <1>1, <1>4 DEF JobIsBacked
<1> QED
  BY <1>5, <1>7, <1>9, <1>10, <1>11 DEF ClaimsInvariant

LEMMA ClaimsKeep ==
  ASSUME ClaimsInvariant, [Next]_vars
  PROVE  ClaimsInvariant'
<1>1. CASE ChangeContent
  BY <1>1, ContentKeepsInvariant
<1>2. CASE Submit \/ Reanchor
  BY <1>2, StartKeepsInvariant
<1>3. CASE LandAnchor
  BY <1>3, LandAnchorKeepsInvariant
<1>4. CASE AnchorSettles
  BY <1>4, SettleAnchorKeepsInvariant
<1>5. CASE Asking
  <2>1. CASE (\E c \in FieldClaims : ProveValue(c)) \/ (\E S \in Carts : ProveCart(S))
    BY <2>1, ProveKeepsInvariant
  <2>2. CASE \E i \in 1..MaxVersions, S \in Transitions : ProveVersionIntegrity(i, S)
    BY <2>2, TransitionKeepsInvariant DEF Transitions
  <2>3. CASE \E c \in Wallets : WalletProves(c)
    BY <2>3, WalletProofKeepsInvariant
  <2>4. CASE \E j \in Rows : RecordWalletProof(j)
    BY <2>4, RecordingKeepsInvariant
  <2> QED
    BY <1>5, <2>1, <2>2, <2>3, <2>4 DEF Asking
<1>6. CASE Settling
  BY <1>6, LandProofKeepsInvariant, RefusalKeepsInvariant, SuccessKeepsInvariant,
     FailureKeepsInvariant, TrackerKeepsInvariant DEF Settling
<1>7. CASE Restart
  BY <1>7, RestartKeepsInvariant
<1>8. CASE UNCHANGED vars
  <2>1. ProofTypeOK'
    BY <1>8 DEF ClaimsInvariant, ProofTypeOK, vars
  <2>2. PassportPart' /\ \A h \in Contents \cup {None} : NamedForGood(h) => NamedForGood(h)'
    BY <1>8, PassportPartStays DEF ClaimsInvariant, PassportPart, vars
  <2> QED
    BY <1>8, <2>1, <2>2, LogStands DEF vars
<1> QED
  BY <1>1, <1>2, <1>3, <1>4, <1>5, <1>6, <1>7, <1>8 DEF Next

-----------------------------------------------------------------------------
(* What holds at all times *)

\* Rows, jobs, versions and the chain speak of each other as the parts of
\* ClaimsInvariant say, at all times.
THEOREM ClaimsAreBacked == Spec => []ClaimsInvariant
<1>1. Init => ClaimsInvariant
  BY ClaimsStart
<1>2. ClaimsInvariant /\ [Next]_vars => ClaimsInvariant'
  BY ClaimsKeep
<1> QED
  BY <1>1, <1>2, PTL DEF Spec

\* The variables of the proofs keep their types.
THEOREM ProofTypeCorrect == Spec => []ProofTypeOK
<1>1. ClaimsInvariant => ProofTypeOK
  BY DEF ClaimsInvariant
<1> QED
  BY <1>1, ClaimsAreBacked, PTL

\* A row that a job or a read of the vault closed as succeeded names a claim
\* that a vault holds about the versions it names: a cart that landed in part,
\* and a wait that ran out, book nothing that is not there.
THEOREM NeverLiesGreen == Spec => []GreenIsOnChain
<1>1. ASSUME ClaimsInvariant
      PROVE  GreenIsOnChain
  <2>1. \A r \in Rows : RowIsBacked(r) /\ (Succeeded(r) => r \in Used)
    BY <1>1 DEF ClaimsInvariant, Succeeded, Used
  <2> QED
    BY <2>1 DEF GreenIsOnChain, RowIsBacked
<1> QED
  BY <1>1, ClaimsAreBacked, PTL

\* From the second anchor on, the tree that is stored for a version reproduces
\* the root its vault holds, whatever was read or proven in between.
THEOREM StoredTreesOpenTheirRoots == Spec => []OpeningsReproduceAnchors
<1>1. ClaimsInvariant => OpeningsReproduceAnchors
  BY DEF ClaimsInvariant, OpeningsAreKept
<1> QED
  BY <1>1, ClaimsAreBacked, PTL

\* The vaults of a passport are finitely many.
LEMMA VaultsOfFinite ==
  ASSUME ProofTypeOK
  PROVE  IsFiniteSet(VaultsOf)
<1>1. Len(archived) \in Nat /\ DOMAIN archived = 1..Len(archived)
  BY DEF ProofTypeOK
<1>2. IsFiniteSet(DOMAIN archived)
  BY <1>1, FS_Interval
<1> DEFINE I == DOMAIN archived
           V == {archived[i].vault : i \in I}
           f == [i \in I |-> archived[i].vault]
<1>3. IsFiniteSet(V)
  <2>1. f \in Surjection(I, V)
    BY DEF Surjection
  <2> HIDE DEF I, V, f
  <2> QED
    BY <1>2, <2>1, FS_Surjection DEF I
<1>4. IsFiniteSet({passport.vault})
  BY FS_Singleton
<1> QED
  BY <1>3, <1>4, FS_Union DEF VaultsOf

LEMMA BackedClaimsVerify ==
  ASSUME ClaimsInvariant
  PROVE  ListedClaimVerifies
<1>1. SUFFICES ASSUME passport.status = "anchored"
               PROVE  /\ \A r \in Rows :
                           /\ Listed(r) /\ Newest(r)
                           /\ log[r].by # "transaction"
                           /\ log[r].named \/ AttesterNamed(log[r].hash)
                           => VerifiesClaim(r)
                      /\ Cardinality(VaultsOf) = 1 =>
                           \A r \in Rows :
                             Succeeded(r) /\ log[r].claim \in TransitionClaims => VerifiesTransition(r)
  BY DEF ListedClaimVerifies
<1>2. passport.vault # None /\ anchor = None
  BY <1>1 DEF ClaimsInvariant, PassportIsKept
<1>3. \A x \in claims : x.vault \in VaultsOf
  BY <1>2 DEF ClaimsInvariant, VaultsAreKnown
<1>4. ASSUME NEW r \in Rows, Succeeded(r), log[r].by # "transaction"
      PROVE  /\ r \in Used /\ RowIsBacked(r)
             /\ \E v \in VaultsOf : [vault |-> v, hash |-> log[r].hash, hashB |-> log[r].hashB,
                                     claim |-> log[r].claim] \in claims
  <2>1. r \in Used /\ RowIsBacked(r)
    BY <1>4 DEF ClaimsInvariant, Succeeded, Used
  <2>2. PICK v \in Vaults : [vault |-> v, hash |-> log[r].hash, hashB |-> log[r].hashB,
                             claim |-> log[r].claim] \in claims
    BY <1>4, <2>1 DEF RowIsBacked
  <2>3. v \in VaultsOf
    BY <1>3, <2>2
  <2> QED
    BY <2>1, <2>2, <2>3
<1>5. ASSUME NEW r \in Rows, Listed(r), log[r].by # "transaction",
             log[r].named \/ AttesterNamed(log[r].hash)
      PROVE  VerifiesClaim(r)
  <2>1. log[r].hashB = None
    BY <1>4, <1>5 DEF Listed, RowIsBacked
  <2> QED
    BY <1>2, <1>4, <1>5, <2>1 DEF Listed, VerifiesClaim
<1>6. ASSUME Cardinality(VaultsOf) = 1, NEW r \in Rows, Succeeded(r),
             log[r].claim \in TransitionClaims
      PROVE  VerifiesTransition(r)
  <2>1. r \in Used /\ RowIsBacked(r)
    BY <1>6 DEF ClaimsInvariant, Succeeded, Used
  <2>2. log[r].by # "transaction" /\ NamedForGood(log[r].hash) /\ NamedForGood(log[r].hashB)
    BY <1>6, <2>1 DEF RowIsBacked
  <2>3. AttesterNamed(log[r].hash) /\ AttesterNamed(log[r].hashB)
    BY <2>2 DEF NamedForGood, AttesterNamed
  <2>4. PICK v \in VaultsOf : [vault |-> v, hash |-> log[r].hash, hashB |-> log[r].hashB,
                               claim |-> log[r].claim] \in claims
    BY <1>4, <1>6, <2>2
  <2>5. v = passport.vault
    <3>1. IsFiniteSet(VaultsOf)
      BY VaultsOfFinite DEF ClaimsInvariant
    <3>2. PICK x : VaultsOf = {x}
      BY <1>6, <3>1, FS_Singleton
    <3>3. passport.vault \in VaultsOf
      BY DEF VaultsOf
    <3> QED
      BY <3>2, <3>3
  <2> QED
    BY <1>2, <2>3, <2>4, <2>5 DEF VerifiesTransition
<1> QED
  BY <1>5, <1>6

\* A claim that was proven keeps verifying while the passport is anchored: a
\* field claim however often the passport was anchored again and on whatever
\* vaults, a transition while no version moved to another vault.
THEOREM ProvenClaimsKeepVerifying == Spec => []ListedClaimVerifies
<1>1. ClaimsInvariant => ListedClaimVerifies
  BY BackedClaimsVerify
<1> QED
  BY <1>1, ClaimsAreBacked, PTL
=============================================================================
