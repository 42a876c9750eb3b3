----------------------------- MODULE ServerSessions -----------------------------
(***************************************************************************)
(* The signing sessions of the server wallets: one per wallet, opened on   *)
(* demand, warmed by a job of the plugin, watched by the cockpit and       *)
(* replaced by the sponsor pool's monitor when they are found dead.        *)
(*                                                                         *)
(* The plugin is external: it keeps a session row per connect, one signing *)
(* facade per account, built by the newest prewarm job of the account, and *)
(* the expiry of any session row takes the facade of its account along.    *)
(* A session number that nobody refers to any more may be used again.      *)
(***************************************************************************)
EXTENDS Integers, FiniteSets

CONSTANTS
  Wallets,      \* server wallets; all of them are in the sponsor pool
  Sessions,     \* names for sessions, also those that are being opened
  Readers,      \* calls of sponsorPoolStatus that may overlap
  None

ASSUME SessionAssumption ==
  /\ None \notin Wallets \cup Sessions
  /\ IsFiniteSet(Sessions)

VARIABLES
  serverSessions,   \* serverSessions: the cached session of a wallet
  inflight,         \* serverSessionInflight: the opening callers join
  prewarmJobs,      \* serverPrewarmJobs: the sessions with a remembered job
  warmth,           \* walletWarmth
  header,           \* the session whose job serverWalletStatus is asking about
  wallet,           \* plugin: the account a session belongs to
  session,          \* plugin: the state of the session
  job,              \* plugin: the state of its prewarm job
  facade,           \* plugin: the accounts with a facade
  read              \* what a status call is reading, and has been answered

service == <<serverSessions, inflight, prewarmJobs, warmth>>
plugin == <<wallet, session, job, facade>>
vars == <<serverSessions, inflight, prewarmJobs, warmth, header, wallet, session, job, facade, read>>

NoRead == [of |-> None, session |-> None, answer |-> "none"]

SessionTypeOK ==
  /\ {serverSessions, inflight, header} \subseteq [Wallets -> Sessions \cup {None}]
  /\ prewarmJobs \subseteq Sessions
  /\ warmth \in [Wallets -> {"none", "warming", "ready", "error"}]
  /\ wallet \in [Sessions -> Wallets \cup {None}]
  /\ session \in [Sessions -> {"none", "opening", "live", "dead"}]
  /\ job \in [Sessions -> {"none", "running", "succeeded", "failed", "superseded"}]
  /\ facade \subseteq Wallets
  /\ read \in [Readers -> [of : Wallets \cup {None}, session : Sessions \cup {None},
                           answer : {"none", "asked", "no facade"}]]

Init ==
  /\ serverSessions = [w \in Wallets |-> None]
  /\ inflight = [w \in Wallets |-> None]
  /\ prewarmJobs = {}
  /\ warmth = [w \in Wallets |-> "none"]
  /\ header = [w \in Wallets |-> None]
  /\ wallet = [s \in Sessions |-> None]
  /\ session = [s \in Sessions |-> "none"]
  /\ job = [s \in Sessions |-> "none"]
  /\ facade = {}
  /\ read = [r \in Readers |-> NoRead]

-----------------------------------------------------------------------------
(* Opening *)

\* The names an opening may take: new, or dead and forgotten.
Free ==
  {s \in Sessions :
     /\ session[s] \in {"none", "dead"}
     /\ \A w \in Wallets : s \notin {serverSessions[w], inflight[w], header[w]}
     /\ \A r \in Readers : read[r].session # s}

\* The entries of prewarmJobs that can still be asked for.
Remembered(cached) ==
  {s \in prewarmJobs : session[s] = "live" \/ \E w \in Wallets : cached[w] = s}

Connect(w, s) ==
  /\ inflight' = [inflight EXCEPT ![w] = s]
  /\ wallet' = [wallet EXCEPT ![s] = w]
  /\ session' = [session EXCEPT ![s] = "opening"]
  /\ job' = [job EXCEPT ![s] = "none"]

\* Every caller opens a session of its own.
OpenMutant(w, cached) ==
  /\ serverSessions' = cached
  /\ prewarmJobs' = Remembered(cached)
  /\ Free # {}
  /\ Connect(w, CHOOSE s \in Free : TRUE)

\* serverSigningSession, with nothing cached: join the opening, or start one
\* under a name that stands ready (the code has no such bound).
Open(w, cached) ==
  /\ serverSessions' = cached
  /\ prewarmJobs' = Remembered(cached)
  /\ \/ inflight[w] # None /\ UNCHANGED <<inflight, wallet, session, job>>
     \/ inflight[w] = None /\ Free # {} /\ Connect(w, CHOOSE s \in Free : TRUE)

\* prewarmServerWallet, serverWalletSession, effectiveSession,
\* sponsorSessionIdFor: a session is asked for, and there is none cached.
AskSession(w) ==
  /\ serverSessions[w] = None
  /\ Open(w, serverSessions)
  /\ UNCHANGED <<warmth, header, facade, read>>

\* The prewarm jobs of an account that a new one supersedes.
Superseded(s) == {q \in Sessions : wallet[q] = wallet[s] /\ job[q] = "running"}

\* openServerSession: connectWallet and connectWalletForSigning succeeded.
OpenSucceeds(s) ==
  LET w == wallet[s]
  IN  /\ session[s] = "opening"
      /\ session' = [session EXCEPT ![s] = "live"]
      /\ job' = [q \in Sessions |-> IF q = s THEN "running"
                                    ELSE IF q \in Superseded(s) THEN "superseded" ELSE job[q]]
      /\ prewarmJobs' = prewarmJobs \cup {s}
      /\ warmth' = [warmth EXCEPT ![w] = "warming"]
      /\ serverSessions' = [serverSessions EXCEPT ![w] = s]
      /\ inflight' = [inflight EXCEPT ![w] = None]
      /\ UNCHANGED <<header, wallet, facade, read>>

\* ... or one of them failed; nobody disconnects what the first connected.
OpenFails(s) ==
  LET w == wallet[s]
  IN  /\ session[s] = "opening"
      /\ session' = [session EXCEPT ![s] = "dead"]
      /\ warmth' = [warmth EXCEPT ![w] = "error"]
      /\ inflight' = [inflight EXCEPT ![w] = None]
      /\ UNCHANGED <<serverSessions, prewarmJobs, header, wallet, job, facade, read>>

-----------------------------------------------------------------------------
(* The plugin *)

PrewarmSucceeds(s) ==
  /\ job[s] = "running"
  /\ job' = [job EXCEPT ![s] = "succeeded"]
  /\ facade' = facade \cup {wallet[s]}
  /\ UNCHANGED <<service, header, wallet, session, read>>

PrewarmFails(s) ==
  /\ job[s] = "running"
  /\ job' = [job EXCEPT ![s] = "failed"]
  /\ UNCHANGED <<service, header, wallet, session, facade, read>>

\* A session row reaches its end: its prewarm fails if it is still at work, and
\* the sweep evicts the facade of the account.
SessionExpires(s) ==
  /\ session[s] = "live"
  /\ session' = [session EXCEPT ![s] = "dead"]
  /\ job' = [job EXCEPT ![s] = IF @ = "running" THEN "failed" ELSE @]
  /\ facade' = facade \ {wallet[s]}
  /\ UNCHANGED <<service, header, wallet, read>>

-----------------------------------------------------------------------------
(* The cockpit's header: serverWalletStatus, polled by Login.controller *)

\* A wallet without a remembered prewarm job is left as it is.
NoJobLeftMutant(w) ==
  /\ serverSessions[w] \notin prewarmJobs \cup {None}
  /\ header[w] = None /\ warmth[w] = "warming"
  /\ UNCHANGED vars

\* A wallet without a remembered prewarm job counts as warm.
NoJobLeft(w) ==
  /\ serverSessions[w] \notin prewarmJobs \cup {None}
  /\ header[w] = None /\ warmth[w] = "warming"
  /\ warmth' = [warmth EXCEPT ![w] = "ready"]
  /\ UNCHANGED <<serverSessions, inflight, prewarmJobs, header, plugin, read>>

\* Otherwise getJobStatus is asked for the job.
AskJob(w) ==
  /\ serverSessions[w] \in prewarmJobs
  /\ header[w] = None /\ warmth[w] = "warming"
  /\ header' = [header EXCEPT ![w] = serverSessions[w]]
  /\ UNCHANGED <<service, plugin, read>>

\* What the job says is written to the wallet, whichever session it now has; a job
\* that was superseded is forgotten.
JobAnswers(w) ==
  LET s == header[w]
  IN  /\ s # None
      /\ warmth' = [warmth EXCEPT ![w] = CASE job[s] = "succeeded" -> "ready"
                                            [] job[s] = "failed" -> "error"
                                            [] OTHER -> @]
      /\ prewarmJobs' = IF job[s] = "superseded" THEN prewarmJobs \ {s} ELSE prewarmJobs
      /\ header' = [header EXCEPT ![w] = None]
      /\ UNCHANGED <<serverSessions, inflight, plugin, read>>

\* A job that cannot be read keeps the wallet warming.
JobUnread(w) ==
  /\ header[w] # None
  /\ header' = [header EXCEPT ![w] = None]
  /\ UNCHANGED <<service, plugin, read>>

-----------------------------------------------------------------------------
(* The sponsor pool's monitor: sponsorPoolStatus *)

\* getWalletBalance is asked for the cached session.
ReadPool(r, w) ==
  /\ read[r] = NoRead
  /\ serverSessions[w] # None
  /\ read' = [read EXCEPT ![r] = [of |-> w, session |-> serverSessions[w], answer |-> "asked"]]
  /\ UNCHANGED <<service, header, plugin>>

\* The cached session is dropped, whichever it now is, and one is opened.
Heal(r) ==
  /\ read' = [read EXCEPT ![r] = NoRead]
  /\ Open(read[r].of, [serverSessions EXCEPT ![read[r].of] = None])
  /\ UNCHANGED <<warmth, header, facade>>

\* A balance, or a facade that is still syncing.
PoolAnswers(r) ==
  /\ read[r].answer = "asked"
  /\ session[read[r].session] = "live"
  /\ read[r].of \in facade
  /\ read' = [read EXCEPT ![r] = NoRead]
  /\ UNCHANGED <<service, header, plugin>>

\* "Session not found", "Session expired".
SessionNotFound(r) ==
  /\ read[r].answer = "asked"
  /\ session[read[r].session] = "dead"
  /\ Heal(r)

\* "No facade": the status of the prewarm job is asked for next.
NoFacade(r) ==
  /\ read[r].answer = "asked"
  /\ session[read[r].session] = "live"
  /\ read[r].of \notin facade
  /\ read' = [read EXCEPT ![r].answer = "no facade"]
  /\ UNCHANGED <<service, header, plugin>>

\* A remembered job is at work, whatever its state.
PrewarmStillRunningMutant(s) == s \in prewarmJobs

PrewarmStillRunning(s) == s \in prewarmJobs /\ job[s] = "running"

StillWarming(r) ==
  /\ read[r].answer = "no facade"
  /\ PrewarmStillRunning(read[r].session)
  /\ read' = [read EXCEPT ![r] = NoRead]
  /\ UNCHANGED <<service, header, plugin>>

FacadeIsGone(r) ==
  /\ read[r].answer = "no facade"
  /\ ~PrewarmStillRunning(read[r].session)
  /\ Heal(r)

-----------------------------------------------------------------------------
(* The detached jobs: laneFor, runDisclosureDetached *)

\* A job takes the prewarm it finds out of the map, and waits for it; the next
\* job of the session finds none and signs at once.
TakePrewarm(w) ==
  /\ serverSessions[w] \in prewarmJobs
  /\ prewarmJobs' = prewarmJobs \ {serverSessions[w]}
  /\ UNCHANGED <<serverSessions, inflight, warmth, header, plugin, read>>

Answered(r) ==
  PoolAnswers(r) \/ SessionNotFound(r) \/ NoFacade(r) \/ StillWarming(r) \/ FacadeIsGone(r)

WalletStatus(w) == NoJobLeft(w) \/ AskJob(w) \/ JobAnswers(w) \/ JobUnread(w)

JobEnds(s) == PrewarmSucceeds(s) \/ PrewarmFails(s)

Next ==
  \/ \E w \in Wallets : AskSession(w) \/ TakePrewarm(w) \/ WalletStatus(w)
  \/ \E s \in Sessions : OpenSucceeds(s) \/ OpenFails(s) \/ JobEnds(s) \/ SessionExpires(s)
  \/ \E r \in Readers : (\E w \in Wallets : ReadPool(r, w)) \/ Answered(r)

Spec == Init /\ [][Next]_vars

Abandoned(s) == \A w \in Wallets : serverSessions[w] # s

\* The plugin answers and lets the sessions expire that nobody uses any more, the
\* monitor and the header keep polling (a call of the monitor reads the whole pool);
\* a job the header asks about again and again can be read at last.
Fairness ==
  /\ \A r \in Readers : WF_vars(Answered(r)) /\ \A w \in Wallets : SF_vars(ReadPool(r, w))
  /\ \A s \in Sessions : WF_vars(JobEnds(s)) /\ WF_vars(OpenSucceeds(s) \/ OpenFails(s))
                     /\ WF_vars(Abandoned(s) /\ SessionExpires(s))
  /\ \A w \in Wallets : WF_vars(WalletStatus(w)) /\ SF_vars(JobAnswers(w))

FairSpec == Spec /\ Fairness

-----------------------------------------------------------------------------
(* Properties *)

\* serverSigningSession: however many callers and monitors want a session at
\* once, a wallet is connected once at a time, they all get that session, and
\* what is cached for a wallet is a session of its own that was opened.
OneOpening ==
  \A w \in Wallets : \A s \in Sessions :
    /\ wallet[s] = w /\ session[s] = "opening" => inflight[w] = s
    /\ serverSessions[w] = s => wallet[s] = w /\ session[s] \in {"live", "dead"}

Works(w) == session[serverSessions[w]] = "live" /\ w \in facade

\* sponsorPoolStatus: a sponsor's cached session that died, or whose facade was
\* evicted, is replaced, or works again: the monitor does not take it for one
\* that is still warming for good.
SponsorHeals ==
  \A w \in Wallets : \A s \in Sessions :
    serverSessions[w] = s /\ ~Works(w) ~> serverSessions[w] # s \/ Works(w)

\* serverWalletStatus: the header does not show 'warming' for good, also when
\* the prewarm was superseded, or taken by a job, while the session lasts.
WarmthSettles ==
  \A w \in Wallets : \A s \in Sessions :
    serverSessions[w] = s /\ warmth[w] = "warming" ~> serverSessions[w] # s \/ warmth[w] # "warming"

=============================================================================
