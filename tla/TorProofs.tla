------------------------------ MODULE TorProofs ------------------------------
(***************************************************************************)
(* Proofs about the parts of Tor: TorMain for any set of processes,        *)
(* AlertSockets for any workers, methods, capacity and number of           *)
(* descriptors, and TorVersions for any texts, releases, relays and lists  *)
(* of protocols.                                                           *)
(***************************************************************************)
EXTENDS TorMain, AlertSockets, TorLib, FiniteSetTheorems, WellFoundedInduction, TLAPS

-----------------------------------------------------------------------------
(* TorMain: the lock file.                                                 *)

\* Leaving tor_run_main, by whatever exit, gives back the lock the process has
\* and no other.
LEMMA LeaveKeeps ==
    ASSUME LockInv, NEW p \in Procs, pc[p] # "off", Leave(p),
           UNCHANGED <<runs, server, allowBroken>>
    PROVE  LockInv'
<1>1. TypeOK'
  BY DEF LockInv, TypeOK, Leave, TorFreeAll, ReleaseLockfile
<1>2. OneTorAtATime'
  BY ProcsAssumption DEF LockInv, TypeOK, OneTorAtATime, Leave, TorFreeAll, ReleaseLockfile
<1> QED BY <1>1, <1>2 DEF LockInv

\* try_locking takes a lock only when it is free or already this process's.
LEMMA TryLockingKeeps ==
    ASSUME LockInv, NEW p \in Procs, NEW retry \in BOOLEAN,
           pc[p] \in {"locking", "waiting"}, TryLocking(p, retry),
           UNCHANGED <<runs, server, allowBroken>>
    PROVE  LockInv'
<1>1. CASE lockfile[p] \/ lockOwner = None
  <2>1. CASE Leave(p)
    BY <2>1, LeaveKeeps
  <2>2. CASE ~Leave(p)
    <3>1. /\ pc' = [pc EXCEPT ![p] = "sandbox"]
          /\ lockfile' = [lockfile EXCEPT ![p] = TRUE]
          /\ lockOwner' = p
          /\ UNCHANGED <<pending, slow, exitCode, dnsFailed, told>>
      BY <1>1, <2>2 DEF TryLocking, LockInv, OneTorAtATime
    <3>2. TypeOK'
      BY <3>1 DEF LockInv, TypeOK
    <3>3. OneTorAtATime'
      BY <1>1, <3>1, ProcsAssumption DEF LockInv, TypeOK, OneTorAtATime
    <3> QED BY <3>2, <3>3 DEF LockInv
  <2> QED BY <2>1, <2>2
<1>2. CASE ~lockfile[p] /\ lockOwner # None
  <2>1. CASE Leave(p)
    BY <2>1, LeaveKeeps
  <2>2. CASE ~Leave(p)
    <3>1. /\ pc' = [pc EXCEPT ![p] = "waiting"]
          /\ UNCHANGED <<lockfile, lockOwner, pending, slow, exitCode, dnsFailed, told>>
      BY <1>2, <2>2 DEF TryLocking
    <3>2. TypeOK'
      BY <3>1 DEF LockInv, TypeOK
    <3>3. OneTorAtATime'
      BY <3>1 DEF LockInv, TypeOK, OneTorAtATime
    <3> QED BY <3>2, <3>3 DEF LockInv
  <2> QED BY <2>1, <2>2
<1> QED BY <1>1, <1>2

\* What happens inside the main loop touches neither pc nor the lock.
LEMMA LoopKeeps ==
    ASSUME LockInv, UNCHANGED <<pc, lockOwner, lockfile>>, TypeOK'
    PROVE  LockInv'
  BY DEF LockInv, OneTorAtATime

\* tor_init on a process that does not run: it has no lock to lose.
LEMMA StartKeeps ==
    ASSUME LockInv, NEW p \in Procs, TorInit(p)
    PROVE  LockInv'
<1>1. TypeOK'
  BY DEF LockInv, TypeOK, TorInit
<1>2. OneTorAtATime'
  BY DEF LockInv, TypeOK, OneTorAtATime, TorInit
<1> QED BY <1>1, <1>2 DEF LockInv

\* The steps of the main loop that a signal brings about.
LEMMA SignalKeeps ==
    ASSUME LockInv, NEW p \in Procs, NEW sig \in Signals,
           Raise(p, sig) \/ ProcessSignal(p, sig)
    PROVE  LockInv'
<1>1. CASE Raise(p, sig)
  <2>1. TypeOK'
    BY <1>1 DEF LockInv, TypeOK, Raise
  <2> QED BY <1>1, <2>1, LoopKeeps DEF Raise
<1>2. CASE ProcessSignal(p, sig)
  <2>1. UNCHANGED <<pc, lockOwner, lockfile>>
    BY <1>2 DEF ProcessSignal
  <2>2. UNCHANGED <<runs, dnsFailed>> /\ pending' \in [Procs -> SUBSET Signals]
    BY <1>2 DEF ProcessSignal, LockInv, TypeOK
  <2>3. /\ server' \in [Procs -> BOOLEAN] /\ allowBroken' \in [Procs -> BOOLEAN]
        /\ slow' \in [Procs -> BOOLEAN] /\ exitCode' \in [Procs -> {0, 1, None}]
        /\ told' \in [Procs -> {"nothing", "READY", "RELOADING", "STOPPING"}]
    <3>1. CASE ProcessTerm(p)
      BY <3>1 DEF ProcessTerm, ShutdownEventLoop, LockInv, TypeOK
    <3>2. CASE ProcessInt(p)
      BY <3>2 DEF ProcessInt, ShutdownEventLoop, LockInv, TypeOK
    <3>3. CASE ProcessHup(p)
      BY <3>3 DEF ProcessHup, ShutdownEventLoop, LockInv, TypeOK
    <3>4. CASE UNCHANGED <<exitCode, slow, told, server, allowBroken>>
      BY <3>4 DEF LockInv, TypeOK
    <3> QED BY <1>2, <3>1, <3>2, <3>3, <3>4 DEF ProcessSignal
  <2>4. TypeOK'
    BY <2>1, <2>2, <2>3 DEF LockInv, TypeOK
  <2> QED BY <2>1, <2>4, LoopKeeps
<1> QED BY <1>1, <1>2

\* A killed process loses its lock with its memory.
LEMMA KilledKeeps ==
    ASSUME LockInv, NEW p \in Procs, Killed(p)
    PROVE  LockInv'
<1>1. TypeOK'
  BY DEF LockInv, TypeOK, Killed
<1>2. OneTorAtATime'
  BY ProcsAssumption DEF LockInv, TypeOK, OneTorAtATime, Killed
<1> QED BY <1>1, <1>2 DEF LockInv

\* The steps a process takes by itself.
LEMMA ProcessKeeps ==
    ASSUME LockInv, NEW p \in Procs, Process(p)
    PROVE  LockInv'
<1>1. CASE Lock(p)
  BY <1>1, TryLockingKeeps DEF Lock
<1>2. CASE LockAgain(p)
  BY <1>2, TryLockingKeeps DEF LockAgain
<1>3. CASE Sandbox(p)
  <2>1. CASE Leave(p)
    BY <1>3, <2>1, LeaveKeeps DEF Sandbox
  <2>2. CASE ~Leave(p)
    <3>1. TypeOK'
      BY <1>3, <2>2 DEF Sandbox, LockInv, TypeOK
    <3>2. OneTorAtATime'
      BY <1>3, <2>2 DEF Sandbox, LockInv, TypeOK, OneTorAtATime
    <3> QED BY <3>1, <3>2 DEF LockInv
  <2> QED BY <2>1, <2>2
<1>4. CASE Command(p)
  BY <1>4, LeaveKeeps DEF Command
<1>5. CASE RunTorMainLoop(p)
  <2>1. CASE Leave(p)
    BY <1>5, <2>1, LeaveKeeps DEF RunTorMainLoop
  <2>2. CASE ~Leave(p)
    <3>1. TypeOK'
      BY <1>5, <2>2 DEF RunTorMainLoop, LockInv, TypeOK
    <3>2. OneTorAtATime'
      BY <1>5, <2>2 DEF RunTorMainLoop, LockInv, TypeOK, OneTorAtATime
    <3> QED BY <3>1, <3>2 DEF LockInv
  <2> QED BY <2>1, <2>2
<1>6. CASE HibernateEnds(p)
  <2>1. TypeOK'
    BY <1>6 DEF HibernateEnds, ShutdownEventLoop, LockInv, TypeOK
  <2> QED BY <1>6, <2>1, LoopKeeps DEF HibernateEnds
<1>7. CASE LeaveLoop(p)
  BY <1>7, LeaveKeeps DEF LeaveLoop
<1> QED BY <1>1, <1>2, <1>3, <1>4, <1>5, <1>6, <1>7 DEF Process

\* At any time at most one process, of any number of them on one data directory,
\* is between try_locking and the end of tor_run_main, it is the one that has
\* the lock, and nobody has it otherwise.
THEOREM LockCorrect == Spec => []LockInv
<1>1. Init => LockInv
  BY ProcsAssumption DEF Init, LockInv, TypeOK, OneTorAtATime, Signals
<1>2. LockInv /\ [Next]_vars => LockInv'
  <2> SUFFICES ASSUME LockInv, [Next]_vars PROVE LockInv'
    OBVIOUS
  <2>1. CASE UNCHANGED vars
    BY <2>1 DEF vars, LockInv, TypeOK, OneTorAtATime
  <2>2. ASSUME NEW p \in Procs, TorInit(p) PROVE LockInv'
    BY <2>2, StartKeeps
  <2>3. ASSUME NEW p \in Procs, Process(p) PROVE LockInv'
    BY <2>3, ProcessKeeps
  <2>4. ASSUME NEW p \in Procs, Killed(p) PROVE LockInv'
    BY <2>4, KilledKeeps
  <2>5. ASSUME NEW p \in Procs, NEW sig \in Signals, Raise(p, sig) \/ ProcessSignal(p, sig)
        PROVE  LockInv'
    BY <2>5, SignalKeeps
  <2> QED BY <2>1, <2>2, <2>3, <2>4, <2>5 DEF Next
<1> QED BY <1>1, <1>2, PTL DEF Spec

-----------------------------------------------------------------------------
(* AlertSockets: the file descriptors.                                     *)


\* The descriptors of the alert sockets that are open at each stage.
OwnDescriptors ==
    own = CASE stage \in {"configure", "open"} -> {readFd, writeFd}
            [] stage = "closing" -> {writeFd} \ {readFd}
            [] OTHER -> {}

DescriptorsInv == AlertTypeOK /\ OwnDescriptors

\* The lowest of some numbers is one of them.
LEMMA MinIn ==
    ASSUME NEW S, S \subseteq Nat, S # {}
    PROVE  Min(S) \in S
<1> DEFINE R == OpToRel(<, Nat)
<1>1. IsWellFoundedOn(R, Nat)
  BY NatLessThanWellFounded
<1>2. \A x, y \in Nat : x < y => <<x, y>> \in R
  BY DEF OpToRel
<1> HIDE DEF R
<1>3. PICK x \in S : \A y \in S : <<y, x>> \notin R
  BY <1>1, WFMin
<1>4. \A y \in S : x <= y
  <2> TAKE y \in S
  <2>1. x \in Nat /\ y \in Nat
    OBVIOUS
  <2>2. ~(y < x)
    BY <1>2, <1>3, <2>1
  <2> QED BY <2>1, <2>2
<1> QED BY <1>4 DEF Min

\* What can be said of the free numbers.
LEMMA FreeNumbers ==
    /\ Cardinality(FreeFds) \in Nat
    /\ FreeFds # {} => Min(FreeFds) \in FreeFds
    /\ Cardinality(FreeFds) >= 1 => FreeFds # {}
    /\ Cardinality(FreeFds) >= 2 =>
          Min(FreeFds \ {Min(FreeFds)}) \in FreeFds
<1>1. FreeFds \subseteq Nat /\ FreeFds \subseteq 1 .. MaxFds
  BY FdsAssumption DEF FreeFds
<1>2. IsFiniteSet(1 .. MaxFds)
  BY FdsAssumption, FS_Interval
<1>3. IsFiniteSet(FreeFds) /\ Cardinality(FreeFds) \in Nat
  BY <1>1, <1>2, FS_Subset, FS_CardinalityType
<1>4. FreeFds = {} => Cardinality(FreeFds) = 0
  BY FS_EmptySet
<1>5. FreeFds # {} => Min(FreeFds) \in FreeFds
  BY <1>1, MinIn
<1>6. ASSUME Cardinality(FreeFds) >= 2
      PROVE  Min(FreeFds \ {Min(FreeFds)}) \in FreeFds
  <2> DEFINE first == Min(FreeFds)
             rest  == FreeFds \ {first}
  <2>1. first \in FreeFds
    BY <1>3, <1>4, <1>5, <1>6
  <2>2. Cardinality(rest) = Cardinality(FreeFds) - 1
    BY <1>3, <2>1, FS_RemoveElement
  <2>3. rest # {}
    BY <1>3, <1>6, <2>2, FS_EmptySet
  <2>4. rest \subseteq Nat
    BY <1>1
  <2> HIDE DEF rest
  <2>5. Min(rest) \in rest
    BY <2>3, <2>4, MinIn
  <2> QED BY <2>5 DEF rest
<1> QED BY <1>3, <1>4, <1>5, <1>6

\* At first no alert socket is open.
LEMMA AlertInitHolds == AlertInit => DescriptorsInv
  BY CapacityAssumption DEF AlertInit, DescriptorsInv, AlertTypeOK, OwnDescriptors

\* No step opens or closes another descriptor of the alert sockets than its stage
\* says, nor one of somebody else.
LEMMA AlertStepKeeps == DescriptorsInv /\ [AlertNext]_alertVars => DescriptorsInv' /\ foreign \subseteq foreign'
<1> SUFFICES ASSUME DescriptorsInv, [AlertNext]_alertVars PROVE DescriptorsInv' /\ foreign \subseteq foreign'
  OBVIOUS
<1> USE DEF DescriptorsInv, AlertTypeOK, OwnDescriptors
<1>1. CASE OpenFails
  <2>1. Untried \subseteq Methods
    BY DEF Untried
  <2> QED BY <1>1, <2>1 DEF OpenFails
<1>2. CASE Opens
  <2> PICK m \in Untried :
        /\ Cardinality(FreeFds) >= (IF m \in Eventfds THEN 1 ELSE 2)
        /\ LET first  == Min(FreeFds)
               second == IF m \in Eventfds THEN first ELSE Min(FreeFds \ {first})
           IN  readFd' = first /\ writeFd' = second /\ own' = {first, second}
        /\ method' = m
        /\ stage' = IF m \in Atomic THEN "open" ELSE "configure"
    BY <1>2 DEF Opens
  <2>1. m \in AllMethods
    BY MethodsAssumption DEF Untried
  <2>2. readFd' \in FreeFds /\ writeFd' \in FreeFds /\ own' = {readFd', writeFd'}
    <3>0. Cardinality(FreeFds) \in Nat
      BY FreeNumbers
    <3>1. Cardinality(FreeFds) >= 1
      BY <3>0
    <3>2. CASE m \in Eventfds
      BY <3>1, <3>2, FreeNumbers
    <3>3. CASE m \notin Eventfds
      BY <3>1, <3>3, FreeNumbers
    <3> QED BY <3>2, <3>3
  <2> QED BY <1>2, <2>1, <2>2 DEF Opens, FreeFds
<1>3. CASE Configure
  BY <1>3 DEF Configure, ConfigureFails
<1>4. CASE CloseRead
  BY <1>4 DEF CloseRead
<1>5. CASE Close
  BY <1>5 DEF Close, CloseWrite
<1>6. CASE OpenForeign
  <2>1. Min(FreeFds) \in FreeFds
    BY <1>6, FreeNumbers DEF OpenForeign
  <2> QED BY <1>6, <2>1 DEF OpenForeign, FreeFds
<1>7. ASSUME NEW w \in Workers, Post(w) \/ Alert(w)
      PROVE  DescriptorsInv' /\ foreign \subseteq foreign'
  BY <1>7, CapacityAssumption DEF Post, Alert, Alerted, fdVars
<1>8. CASE Wake \/ Drain \/ Take
  BY <1>8, CapacityAssumption DEF Wake, Drain, Drained, Take, fdVars
<1>9. CASE UNCHANGED alertVars
  BY <1>9 DEF alertVars, fdVars
<1> QED BY <1>1, <1>2, <1>3, <1>4, <1>5, <1>6, <1>7, <1>8, <1>9 DEF AlertNext

\* At each stage exactly the descriptors it should have are open.
LEMMA DescriptorsHold == AlertSpec => []DescriptorsInv
  BY AlertInitHolds, AlertStepKeeps, PTL DEF AlertSpec

\* No failure of alert_sockets_create, and no order of closing, leaves a
\* descriptor open.
THEOREM NothingLeaks == AlertSpec => []NoLeak
<1>1. DescriptorsInv => NoLeak
  BY DEF DescriptorsInv, OwnDescriptors, NoLeak
<1> QED BY DescriptorsHold, <1>1, PTL

\* alert_sockets_close closes no descriptor that the rest of the process has
\* been given in the meantime.
THEOREM ForeignSafe == AlertSpec => ForeignUntouched
<1>1. DescriptorsInv /\ [AlertNext]_alertVars => [foreign \subseteq foreign']_alertVars
  BY AlertStepKeeps
<1> QED BY DescriptorsHold, <1>1, PTL DEF AlertSpec, ForeignUntouched

-----------------------------------------------------------------------------
(* Versions: what Parse returns.                                           *)

\* What Parse returns for a version.
Version == [ok : {TRUE}, major : 0 .. IntMax, minor : 0 .. IntMax, micro : 0 .. IntMax,
            status : {VER_PRE, VER_RC, VER_RELEASE}, patchlevel : 0 .. IntMax,
            status_tag : 0 .. IntMax, svn_revision : Int, git_tag : (0 .. IntMax) \X (0 .. IntMax)]

\* A difference that fits into an int is not wrapped.
LEMMA WrapSmall ==
    ASSUME NEW x \in -IntMax .. IntMax
    PROVE  Wrap(x) = x
  BY WidthAssumption DEF Wrap

\* What Wrap makes is an integer.
LEMMA WrapInt ==
    ASSUME NEW x \in Int
    PROVE  Wrap(x) \in Int
  BY WidthAssumption DEF Wrap

\* A remainder stays what it is when multiples of the modulus are added.
LEMMA ModMultiple ==
    ASSUME NEW M \in Nat \ {0}, NEW a \in 0 .. (M - 1), NEW c \in Int
    PROVE  (a + M * c) % M = a
<1> DEFINE x == a + M * c
           b == x % M
           e == x \div M
<1>1. x \in Int
  OBVIOUS
<1>2. b \in 0 .. (M - 1) /\ e \in Int /\ x = M * e + b
  <2> HIDE DEF x
  <2> QED BY <1>1, SMT
<1> DEFINE g == e - c
<1>3. g \in Int /\ M * g = a - b
  BY <1>2
<1> HIDE DEF x, b, e, g
<1>4. ~(g >= 1)
  <2> SUFFICES ASSUME g >= 1 PROVE FALSE
    OBVIOUS
  <2>1. M * g >= M
    BY <1>3
  <2> QED BY <1>2, <1>3, <2>1
<1>5. ~(g <= -1)
  <2> SUFFICES ASSUME g <= -1 PROVE FALSE
    OBVIOUS
  <2>1. M * g <= -M
    BY <1>3
  <2> QED BY <1>2, <1>3, <2>1
<1>6. g = 0
  BY <1>3, <1>4, <1>5
<1> QED BY <1>2, <1>3, <1>6 DEF b, x

\* A remainder differs from its number by a multiple of the modulus.
LEMMA RemainderIs ==
    ASSUME NEW M \in Nat \ {0}, NEW z \in Int
    PROVE  \E e \in Int : z % M = z + M * e
<1> DEFINE b == z % M
           e == z \div M
<1>1. b \in Int /\ e \in Int /\ z = M * e + b
  OBVIOUS
<1> HIDE DEF b, e
<1>2. -e \in Int /\ M * (-e) = -(M * e)
  BY <1>1
<1>3. b = z + M * (-e)
  BY <1>1, <1>2
<1> QED BY <1>2, <1>3 DEF b

\* The difference of two numbers that were cast is theirs, if that is small: the
\* casts take away multiples of the range, and the difference does too.
LEMMA WrapDifference ==
    ASSUME NEW x \in Int, NEW y \in Int, x - y \in -IntMax .. IntMax
    PROVE  Wrap(Wrap(x) - Wrap(y)) = x - y
<1>1. PICK M \in Nat \ {0} : M = 2 * (IntMax + 1)
  BY WidthAssumption
<1>2. PICK H \in Nat : H = IntMax + 1
  BY WidthAssumption
<1>3. M = 2 * H /\ IntMax \in Int /\ IntMax = H - 1
  BY <1>1, <1>2, WidthAssumption
<1>4. \A z \in Int : Wrap(z) = ((z + H) % M) - H
  <2> TAKE z \in Int
  <2>1. z + IntMax + 1 = z + H /\ 2 * (IntMax + 1) = M /\ IntMax + 1 = H
    BY <1>1, <1>2, <1>3
  <2>2. Wrap(z) = ((z + IntMax + 1) % (2 * (IntMax + 1))) - (IntMax + 1)
    BY DEF Wrap
  <2> QED BY <2>1, <2>2, Zenon
<1>5. \A z \in Int : \E e \in Int : Wrap(z) = z + M * e
  <2> TAKE z \in Int
  <2> DEFINE sum == z + H
  <2>0. sum \in Int
    OBVIOUS
  <2>1. PICK e \in Int : (z + H) % M = (z + H) + M * e
    <3> HIDE DEF sum
    <3>1. \E e \in Int : sum % M = sum + M * e
      BY <2>0, RemainderIs
    <3> QED BY <3>1, Zenon DEF sum
  <2>2. M * e \in Int
    OBVIOUS
  <2>3. Wrap(z) = ((z + H) + M * e) - H
    BY <1>4, <2>1
  <2> QED BY <2>2, <2>3
<1>6. PICK e \in Int : Wrap(x) = x + M * e
  BY <1>5
<1>7. PICK g \in Int : Wrap(y) = y + M * g
  BY <1>5
<1>8. PICK c \in Int : c = e - g
  OBVIOUS
<1>9. M * c = M * e - M * g
  BY <1>8
<1>10. PICK d \in -IntMax .. IntMax : d = x - y
  OBVIOUS
<1>11. M * c \in Int /\ M * e \in Int /\ M * g \in Int /\ d \in Int
  BY <1>3, <1>10
<1>12. Wrap(x) - Wrap(y) = d + M * c
  BY <1>6, <1>7, <1>9, <1>10, <1>11
<1>13. d + H \in 0 .. (M - 1)
  BY <1>3, <1>10
<1>14. ((d + H) + M * c) % M = d + H
  BY <1>13, ModMultiple
<1>15. (d + M * c) + H = (d + H) + M * c /\ d + M * c \in Int /\ (d + H) - H = d
  BY <1>11
<1>16. Wrap(d + M * c) = d
  BY <1>4, <1>14, <1>15
<1> QED BY <1>10, <1>12, <1>16

\* The part behind the numbers leaves a version one.
LEMMA StatusTagVersion ==
    ASSUME NEW v \in Version, NEW s, NEW i
    PROVE  ParseStatusTag(v, s, i) \in Version \cup {Fail}
<1> DEFINE start  == IF At(s, i) \in {"-", "."} THEN i + 1 ELSE i
           tagged == At(s, start) \in DOMAIN StatusTags
           eos    == IF tagged THEN start + 1 ELSE start
           rev    == IF At(s, eos) = " " THEN At(s, eos + 1) ELSE ""
           tag    == IF tagged THEN StatusTags[At(s, start)] ELSE 0
           w      == [v EXCEPT !.status_tag = tag]
<1>1. w \in Version
  <2>1. tag \in 0 .. IntMax
    BY TokensAssumption, WidthAssumption
  <2> HIDE DEF tag
  <2> QED BY <2>1 DEF Version
<1>2. ASSUME rev \in DOMAIN SvnRevisions
      PROVE  [w EXCEPT !.svn_revision = Wrap(SvnRevisions[rev])] \in Version
  <2>1. Wrap(SvnRevisions[rev]) \in Int
    BY <1>2, TokensAssumption, WrapInt
  <2> HIDE DEF w, rev
  <2> QED BY <1>1, <2>1 DEF Version
<1>3. ASSUME rev \in DOMAIN GitTags
      PROVE  [w EXCEPT !.git_tag = GitTags[rev]] \in Version
  <2>1. GitTags[rev] \in (0 .. IntMax) \X (0 .. IntMax)
    BY <1>3, TokensAssumption
  <2> HIDE DEF w, rev
  <2> QED BY <1>1, <2>1 DEF Version
<1>4. ParseStatusTag(v, s, i) =
        IF rev \in BadGitTags THEN Fail
        ELSE IF rev \in DOMAIN SvnRevisions THEN [w EXCEPT !.svn_revision = Wrap(SvnRevisions[rev])]
        ELSE IF rev \in DOMAIN GitTags THEN [w EXCEPT !.git_tag = GitTags[rev]]
        ELSE w
  BY DEF ParseStatusTag
<1> HIDE DEF w, rev
<1> QED BY <1>1, <1>2, <1>3, <1>4

\* A number that is read fits into an int.
LEMMA NumberFits ==
    ASSUME NEW s, NEW i, IsNumber(s, i)
    PROVE  Number(s, i) \in 0 .. IntMax
  BY TokensAssumption, WidthAssumption DEF IsNumber, Number

\* Parse returns a version or fails.
LEMMA ParseVersion ==
    ASSUME NEW text
    PROVE  Parse(text) \in Version \cup {Fail}
<1> DEFINE s  == IF At(text, 1) \in {"Tor ", "tor "} THEN Tail(text) ELSE text
           v2 == [ok |-> TRUE, major |-> Number(s, 1), minor |-> Number(s, 3),
                  micro |-> 0, status |-> VER_RELEASE, patchlevel |-> 0,
                  status_tag |-> 0, svn_revision |-> 0, git_tag |-> <<0, 0>>]
           v3 == [v2 EXCEPT !.micro = Number(s, 5)]
           st == CASE s[6] = "pre" -> VER_PRE
                   [] s[6] = "rc"  -> VER_RC
                   [] OTHER -> VER_RELEASE
           v4 == [v3 EXCEPT !.patchlevel = Number(s, 7), !.status = st]
<1>1. Parse(text) =
        IF ~(IsNumber(s, 1) /\ At(s, 2) = "." /\ IsNumber(s, 3)) THEN Fail
        ELSE IF At(s, 4) = ""  THEN v2
        ELSE IF At(s, 4) = "-" THEN ParseStatusTag(v2, s, 4)
        ELSE IF ~(At(s, 4) = "." /\ IsNumber(s, 5)) THEN Fail
        ELSE IF At(s, 6) = ""  THEN v3
        ELSE IF At(s, 6) = "-" THEN ParseStatusTag(v3, s, 6)
        ELSE IF At(s, 6) \in {".", "pre", "rc"} /\ IsNumber(s, 7) THEN ParseStatusTag(v4, s, 8)
        ELSE Fail
  BY DEF Parse
<1>2. ASSUME IsNumber(s, 1), IsNumber(s, 3)
      PROVE  v2 \in Version
  <2> HIDE DEF s
  <2> QED BY <1>2, NumberFits, WidthAssumption DEF Version, VER_RELEASE
<1>3. ASSUME v2 \in Version, IsNumber(s, 5)
      PROVE  v3 \in Version
  <2> HIDE DEF s, v2
  <2> QED BY <1>3, NumberFits DEF Version
<1>4. st \in {VER_PRE, VER_RC, VER_RELEASE}
  OBVIOUS
<1>5. ASSUME v3 \in Version, IsNumber(s, 7)
      PROVE  v4 \in Version
  <2> HIDE DEF s, v3, st
  <2> QED BY <1>4, <1>5, NumberFits DEF Version
<1> HIDE DEF s, v2, v3, v4
<1> QED BY <1>1, <1>2, <1>3, <1>5, StatusTagVersion

-----------------------------------------------------------------------------
(* Comparing.                                                              *)

\* The fields of a version are integers, all but the revision not below zero.
LEMMA FieldsFit ==
    ASSUME NEW v \in Version
    PROVE  \A k \in 1 .. 9 : /\ Fields(v)[k] \in Int
                             /\ k # 7 => Fields(v)[k] \in 0 .. IntMax
  BY WidthAssumption DEF Fields, Version, VER_PRE, VER_RC, VER_RELEASE

\* tor_version_compare decides by the first field in which two versions differ,
\* the revisions taken as they are written: neither the cast nor the difference
\* changes their order if they are near.
LEMMA CompareIs ==
    ASSUME NEW v \in Version, NEW w \in Version, NEW r \in Int, NEW q \in Int,
           NEW a, NEW b, a = [v EXCEPT !.svn_revision = r], b = [w EXCEPT !.svn_revision = q],
           v.svn_revision = Wrap(r), w.svn_revision = Wrap(q),
           (\A j \in 1 .. 6 : Fields(a)[j] = Fields(b)[j]) => r - q \in -IntMax .. IntMax
    PROVE  /\ Compare(v, w) \in Int
           /\ Compare(v, w) = 0 <=> Fields(a) = Fields(b)
           /\ Compare(v, w) < 0 <=> Precedes(a, b)
           /\ Compare(v, w) > 0 <=> Precedes(b, a)
<1> DEFINE F == Fields(a)
           G == Fields(b)
           diff == [k \in 1 .. 9 |-> Wrap(Fields(v)[k] - Fields(w)[k])]
           First(k) == (diff[k] # 0 \/ k = 9) /\ \A j \in 1 .. (k - 1) : diff[j] = 0
           d == CHOOSE k \in 1 .. 9 : First(k)
<1>1. Compare(v, w) = diff[d]
  BY DEF Compare
<1>21. /\ \A k \in 1 .. 9 : k # 7 => F[k] = Fields(v)[k] /\ G[k] = Fields(w)[k]
      /\ F[7] = r /\ G[7] = q /\ Fields(v)[7] = Wrap(r) /\ Fields(w)[7] = Wrap(q)
  BY DEF Fields, Version
<1>22. \A k \in 1 .. 9 : F[k] \in Int /\ G[k] \in Int /\ diff[k] \in Int
  <2> TAKE k \in 1 .. 9
  <2>1. Fields(v)[k] \in Int /\ Fields(w)[k] \in Int
    BY FieldsFit
  <2>2. Fields(v)[k] - Fields(w)[k] \in Int
    BY <2>1
  <2>3. diff[k] \in Int
    BY <2>2, WrapInt
  <2> HIDE DEF F, G, diff
  <2> QED BY <1>21, <2>1, <2>3
<1>23. \A k \in 1 .. 9 : k # 7 => diff[k] = F[k] - G[k]
  <2> TAKE k \in 1 .. 9
  <2> HAVE k # 7
  <2>1. Fields(v)[k] \in 0 .. IntMax /\ Fields(w)[k] \in 0 .. IntMax
    BY FieldsFit
  <2>2. Fields(v)[k] - Fields(w)[k] \in -IntMax .. IntMax
    BY <2>1, WidthAssumption
  <2>3. diff[k] = Fields(v)[k] - Fields(w)[k]
    BY <2>2, WrapSmall
  <2> HIDE DEF F, G, diff
  <2> QED BY <1>21, <2>3
<1>24. (\A j \in 1 .. 6 : F[j] = G[j]) => diff[7] = F[7] - G[7]
  <2> SUFFICES ASSUME \A j \in 1 .. 6 : F[j] = G[j] PROVE diff[7] = F[7] - G[7]
    OBVIOUS
  <2>1. r - q \in -IntMax .. IntMax
    OBVIOUS
  <2>2. diff[7] = Wrap(Wrap(r) - Wrap(q))
    BY <1>21
  <2> HIDE DEF F, G, diff
  <2> QED BY <1>21, <2>1, <2>2, WrapDifference
<1>2. \A k \in 1 .. 9 : (\A j \in 1 .. (k - 1) : F[j] = G[j]) => diff[k] = F[k] - G[k]
  <2> TAKE k \in 1 .. 9
  <2> HAVE \A j \in 1 .. (k - 1) : F[j] = G[j]
  <2>1. k = 7 => \A j \in 1 .. 6 : F[j] = G[j]
    OBVIOUS
  <2> HIDE DEF F, G, diff
  <2> QED BY <1>23, <1>24, <2>1
<1>3. F = G <=> \A k \in 1 .. 9 : F[k] = G[k]
  BY DEF Fields
<1>4. Precedes(a, b) <=> \E k \in 1 .. 9 : F[k] < G[k] /\ \A j \in 1 .. (k - 1) : F[j] = G[j]
  BY DEF Precedes
<1>5. Precedes(b, a) <=> \E k \in 1 .. 9 : G[k] < F[k] /\ \A j \in 1 .. (k - 1) : F[j] = G[j]
  BY DEF Precedes
<1>6. \E k \in 1 .. 9 : First(k)
  <2> HIDE DEF diff
  <2> QED OBVIOUS
<1>7. d \in 1 .. 9 /\ First(d)
  <2> HIDE DEF diff
  <2> QED BY <1>6
<1> HIDE DEF F, G, diff, d
<1>e. \A k \in 1 .. 9 : (\A j \in 1 .. (k - 1) : diff[j] = 0) => \A j \in 1 .. (k - 1) : F[j] = G[j]
  <2> TAKE k \in 1 .. 9
  <2> HAVE \A j \in 1 .. (k - 1) : diff[j] = 0
  <2>1. \A j \in 1 .. (k - 1) : j # 7 => F[j] = G[j]
    <3> TAKE j \in 1 .. (k - 1)
    <3> HAVE j # 7
    <3>1. j \in 1 .. 9 /\ diff[j] = 0
      OBVIOUS
    <3>2. F[j] \in Int /\ G[j] \in Int /\ F[j] - G[j] = 0
      BY <1>22, <1>23, <3>1
    <3> QED BY <3>2
  <2>2. ASSUME 7 \in 1 .. (k - 1) PROVE F[7] = G[7]
    <3>1. \A j \in 1 .. 6 : F[j] = G[j]
      BY <2>1, <2>2
    <3>2. F[7] \in Int /\ G[7] \in Int /\ F[7] - G[7] = 0
      BY <1>22, <1>24, <2>2, <3>1
    <3> QED BY <3>2
  <2> QED BY <2>1, <2>2
<1>8. CASE diff[d] = 0
  <2>1. \A k \in 1 .. 9 : diff[k] = 0
    <3> TAKE k \in 1 .. 9
    <3>1. d = 9
      BY <1>7, <1>8
    <3>2. CASE k = 9
      BY <1>8, <3>1, <3>2
    <3>3. CASE k # 9
      <4>1. k \in 1 .. (d - 1)
        BY <3>1, <3>3
      <4> QED BY <1>7, <4>1
    <3> QED BY <3>2, <3>3
  <2>2. \A k \in 1 .. 9 : F[k] = G[k]
    <3>1. \A k \in 1 .. 8 : F[k] = G[k]
      BY <1>e, <2>1
    <3>2. F[9] \in Int /\ G[9] \in Int /\ F[9] - G[9] = 0
      BY <1>22, <1>23, <2>1
    <3>3. F[9] = G[9]
      BY <3>2
    <3> QED BY <3>1, <3>3
  <2>3. F = G
    BY <1>3, <2>2
  <2>4. ~Precedes(a, b) /\ ~Precedes(b, a)
    BY <1>22, <1>4, <1>5, <2>2
  <2> QED BY <1>1, <1>8, <2>3, <2>4 DEF F, G
<1>9. CASE diff[d] # 0
  <2>1. \A j \in 1 .. (d - 1) : F[j] = G[j]
    BY <1>7, <1>e
  <2>2. F[d] \in Int /\ G[d] \in Int /\ diff[d] = F[d] - G[d] /\ F[d] # G[d]
    <3>1. F[d] \in Int /\ G[d] \in Int /\ diff[d] = F[d] - G[d]
      BY <1>2, <1>7, <1>22, <2>1
    <3> QED BY <1>9, <3>1
  <2>3. F # G
    BY <2>2
  <2>4. Precedes(a, b) <=> F[d] < G[d]
    <3>1. ASSUME F[d] < G[d] PROVE Precedes(a, b)
      BY <1>4, <1>7, <2>1, <3>1
    <3>2. ASSUME Precedes(a, b) PROVE F[d] < G[d]
      <4>1. PICK k \in 1 .. 9 : F[k] < G[k] /\ \A j \in 1 .. (k - 1) : F[j] = G[j]
        BY <1>4, <3>2
      <4>2. F[k] \in Int /\ F[k] # G[k]
        BY <1>22, <4>1
      <4>3. ~(k < d)
        BY <1>7, <2>1, <4>2
      <4>4. ~(d < k)
        BY <1>7, <2>2, <4>1
      <4> QED BY <1>7, <4>1, <4>3, <4>4
    <3> QED BY <3>1, <3>2
  <2>5. Precedes(b, a) <=> G[d] < F[d]
    <3>1. ASSUME G[d] < F[d] PROVE Precedes(b, a)
      BY <1>5, <1>7, <2>1, <3>1
    <3>2. ASSUME Precedes(b, a) PROVE G[d] < F[d]
      <4>1. PICK k \in 1 .. 9 : G[k] < F[k] /\ \A j \in 1 .. (k - 1) : F[j] = G[j]
        BY <1>5, <3>2
      <4>2. F[k] \in Int /\ F[k] # G[k]
        BY <1>22, <4>1
      <4>3. ~(k < d)
        BY <1>7, <2>1, <4>2
      <4>4. ~(d < k)
        BY <1>7, <2>2, <4>1
      <4> QED BY <1>7, <4>1, <4>3, <4>4
    <3> QED BY <3>1, <3>2
  <2> QED BY <1>1, <2>2, <2>3, <2>4, <2>5 DEF F, G
<1> QED BY <1>8, <1>9

-----------------------------------------------------------------------------
(* The texts and their releases.                                           *)

\* A text that names a release.
LEMMA ReleaseIs ==
    ASSUME NEW t, IsRelease(t)
    PROVE  Place(t) \in DOMAIN Releases /\ t \in Releases[Place(t)]
  BY DEF IsRelease, Place

\* Places are numbers.
LEMMA PlacesAreNumbers == DOMAIN Releases = 1 .. Len(Releases) /\ Len(Releases) \in Nat
  BY ReleasesAssumption

\* The revision that is written is a number.
LEMMA RevisionIs ==
    ASSUME NEW t
    PROVE  Revision(t) \in Int
<1> DEFINE places == {i \in DOMAIN t : t[i] \in DOMAIN SvnRevisions}
           i == CHOOSE i \in places : TRUE
<1>1. Revision(t) = IF places = {} THEN 0 ELSE SvnRevisions[t[i]]
  BY DEF Revision
<1>2. ASSUME places # {} PROVE SvnRevisions[t[i]] \in Int
  <2>1. i \in places
    BY <1>2
  <2>2. t[i] \in DOMAIN SvnRevisions
    BY <2>1
  <2> QED BY <2>2, TokensAssumption
<1> QED BY <1>1, <1>2

\* Comparing two releases is comparing their places.
LEMMA CompareReleases ==
    ASSUME RevisionsNear, NEW s, NEW t, IsRelease(s), IsRelease(t)
    PROVE  LET c == Compare(Parse(s), Parse(t)) IN
           /\ Parse(s) \in Version /\ Parse(t) \in Version
           /\ c \in Int
           /\ c = 0 <=> Place(s) = Place(t)
           /\ c < 0 <=> Place(s) < Place(t)
           /\ c > 0 <=> Place(s) > Place(t)
           /\ SameSeries(Parse(s), Parse(t)) <=> Series[Place(s)] = Series[Place(t)]
<1> DEFINE v == Parse(s)
           w == Parse(t)
           a == Meant(s)
           b == Meant(t)
           k == Place(s)
           l == Place(t)
<1>1. k \in DOMAIN Releases /\ l \in DOMAIN Releases /\ s \in Releases[k] /\ t \in Releases[l]
  BY ReleaseIs
<1>2. /\ a.ok /\ b.ok
      /\ v.svn_revision = Wrap(a.svn_revision) /\ w.svn_revision = Wrap(b.svn_revision)
      /\ k < l => Precedes(a, b)
      /\ k = l => Fields(a) = Fields(b)
      /\ SameSeries(a, b) <=> Series[k] = Series[l]
  BY <1>1, ReleasesAssumption
<1>3. l < k => Precedes(b, a)
  BY <1>1, ReleasesAssumption
<1>4. k \in Int /\ l \in Int
  BY <1>1, PlacesAreNumbers
<1>5. v \in Version /\ w \in Version
  <2> HIDE DEF k, l
  <2>1. v \in Version \cup {Fail} /\ w \in Version \cup {Fail}
    BY ParseVersion
  <2>2. ~Fail.ok
    BY DEF Fail
  <2>3. (~v.ok => a = Fail) /\ (~w.ok => b = Fail)
    BY DEF Meant
  <2> HIDE DEF v, w, a, b
  <2> QED BY <1>2, <2>1, <2>2, <2>3
<1>21. /\ a = [v EXCEPT !.svn_revision = Revision(s)] /\ b = [w EXCEPT !.svn_revision = Revision(t)]
      /\ a.svn_revision = Revision(s) /\ b.svn_revision = Revision(t)
  <2>1. v.ok /\ w.ok
    <3> HIDE DEF v, w
    <3> QED BY <1>5 DEF Version
  <2>2. a = [v EXCEPT !.svn_revision = Revision(s)] /\ b = [w EXCEPT !.svn_revision = Revision(t)]
    BY <2>1 DEF Meant
  <2> HIDE DEF v, w, a, b
  <2> QED BY <1>5, <2>2 DEF Version
<1>22. Revision(s) \in Int /\ Revision(t) \in Int
  BY RevisionIs
<1>23. (\A j \in 1 .. 6 : Fields(a)[j] = Fields(b)[j]) => Revision(s) - Revision(t) \in -IntMax .. IntMax
  BY <1>1 DEF RevisionsNear
<1>24. SameSeries(v, w) <=> SameSeries(a, b)
  <2> HIDE DEF v, w, a, b
  <2> QED BY <1>5, <1>21 DEF SameSeries, Version
<1> HIDE DEF v, w, a, b, k, l
<1>6. /\ Compare(v, w) \in Int
      /\ Compare(v, w) = 0 <=> Fields(a) = Fields(b)
      /\ Compare(v, w) < 0 <=> Precedes(a, b)
      /\ Compare(v, w) > 0 <=> Precedes(b, a)
  <2>1. v.svn_revision = Wrap(Revision(s)) /\ w.svn_revision = Wrap(Revision(t))
    BY <1>2, <1>21
  <2> QED BY <1>5, <1>21, <1>22, <1>23, <2>1, CompareIs
<1>7. /\ Compare(v, w) = 0 <=> k = l
      /\ Compare(v, w) < 0 <=> k < l
      /\ Compare(v, w) > 0 <=> k > l
  BY <1>2, <1>3, <1>4, <1>6
<1> QED BY <1>2, <1>5, <1>6, <1>7, <1>24 DEF v, w, k, l

\* A list has texts, and those that are releases are read, stripped or not.
LEMMA ListIs ==
    ASSUME NEW list \in Lists
    PROVE  \E n \in Nat :
              /\ list \in [1 .. n -> {Texts[i] : i \in DOMAIN Texts}]
              /\ \A i \in 1 .. n : /\ \E k \in DOMAIN Texts : list[i] = Texts[k]
                                   /\ Parse(list[i]).ok <=> IsRelease(list[i])
                                   /\ Parse(Stripped(list[i])).ok <=> IsRelease(Stripped(list[i]))
<1>1. PICK n \in 0 .. MaxList : list \in [1 .. n -> {Texts[i] : i \in DOMAIN Texts}]
  BY DEF Lists
<1>2. n \in Nat
  BY ListsAssumption
<1>3. \A i \in 1 .. n : \E k \in DOMAIN Texts : list[i] = Texts[k]
  BY <1>1
<1>4. \A k \in DOMAIN Texts : /\ Parse(Texts[k]).ok <=> IsRelease(Texts[k])
                              /\ Parse(Stripped(Texts[k])).ok <=> IsRelease(Stripped(Texts[k]))
  BY ReleasesAssumption
<1> QED BY <1>1, <1>2, <1>3, <1>4

\* What the loop of tor_version_is_obsolete finds are the releases of the list.
LEMMA OthersAre ==
    ASSUME NEW list \in Lists
    PROVE  LET listed == Places(Entries(list)) IN
           /\ \A o \in Others(list) : \E t : IsRelease(t) /\ Place(t) \in listed /\ o = Parse(t)
           /\ \A k \in listed : \E t : IsRelease(t) /\ Place(t) = k /\ Parse(t) \in Others(list)
           /\ listed \subseteq Int
           /\ list = <<>> => listed = {}
<1> DEFINE entries == Entries(list)
<1>1. PICK n \in Nat :
              /\ list \in [1 .. n -> {Texts[i] : i \in DOMAIN Texts}]
              /\ \A i \in 1 .. n : Parse(Stripped(list[i])).ok <=> IsRelease(Stripped(list[i]))
  BY ListIs
<1>2. DOMAIN list = 1 .. n /\ DOMAIN entries = 1 .. n /\ \A i \in 1 .. n : entries[i] = Stripped(list[i])
  BY <1>1 DEF Entries
<1>3. Others(list) = {Parse(entries[i]) : i \in {j \in 1 .. n : Parse(entries[j]).ok}}
  BY <1>2 DEF Others
<1>4. Places(entries) = {Place(entries[i]) : i \in {j \in 1 .. n : IsRelease(entries[j])}}
  BY <1>2 DEF Places
<1> HIDE DEF entries
<1>5. \A i \in 1 .. n : Parse(entries[i]).ok <=> IsRelease(entries[i])
  BY <1>1, <1>2
<1>6. \A o \in Others(list) : \E t : IsRelease(t) /\ Place(t) \in Places(entries) /\ o = Parse(t)
  BY <1>3, <1>4, <1>5
<1>7. \A k \in Places(entries) : \E t : IsRelease(t) /\ Place(t) = k /\ Parse(t) \in Others(list)
  BY <1>3, <1>4, <1>5
<1>8. Places(entries) \subseteq Int
  BY <1>4, ReleaseIs, PlacesAreNumbers
<1>9. list = <<>> => Places(entries) = {}
  <2>1. list = <<>> => n = 0
    BY <1>2
  <2> QED BY <1>4, <2>1
<1> QED BY <1>6, <1>7, <1>8, <1>9 DEF entries

\* How the own version is judged.
LEMMA StatusIs ==
    ASSUME RevisionsNear, NEW mine, IsRelease(mine), NEW list \in Lists
    PROVE  LET m      == Place(mine)
               listed == Places(Entries(list))
               series == {k \in listed : Series[k] = Series[m]}
           IN  StatusOfMine(Parse(mine), list) =
                 CASE list = <<>> -> "VS_EMPTY"
                   [] m \in listed -> "VS_RECOMMENDED"
                   [] listed # {} /\ (\A k \in listed : k < m) -> "VS_NEW"
                   [] listed # {} /\ (\A k \in listed : k > m) -> "VS_OLD"
                   [] series # {} /\ (\A k \in series : k < m)
                      /\ (\E k \in listed : k > m) -> "VS_NEW_IN_SERIES"
                   [] OTHER -> "VS_UNRECOMMENDED"
<1> DEFINE m      == Place(mine)
           listed == Places(Entries(list))
           series == {k \in listed : Series[k] = Series[m]}
           v      == Parse(mine)
           others == Others(list)
           same   == {o \in others : SameSeries(v, o)}
           newer  == {o \in others : Compare(v, o) < 0}
           older  == {o \in others : Compare(v, o) > 0}
<1>1. m \in Int /\ listed \subseteq Int /\ (list = <<>> => listed = {})
  BY ReleaseIs, PlacesAreNumbers, OthersAre
<1>2. \A o \in others : \E k \in listed :
         /\ Compare(v, o) = 0 <=> m = k
         /\ Compare(v, o) < 0 <=> m < k
         /\ Compare(v, o) > 0 <=> m > k
         /\ SameSeries(v, o) <=> Series[k] = Series[m]
  <2> TAKE o \in others
  <2>1. PICK t : IsRelease(t) /\ Place(t) \in listed /\ o = Parse(t)
    BY OthersAre
  <2>2. /\ Compare(v, Parse(t)) = 0 <=> m = Place(t)
        /\ Compare(v, Parse(t)) < 0 <=> m < Place(t)
        /\ Compare(v, Parse(t)) > 0 <=> m > Place(t)
        /\ SameSeries(v, Parse(t)) <=> Series[Place(t)] = Series[m]
    BY <2>1, CompareReleases
  <2> QED BY <2>1, <2>2
<1>3. \A k \in listed : \E o \in others :
         /\ Compare(v, o) = 0 <=> m = k
         /\ Compare(v, o) < 0 <=> m < k
         /\ Compare(v, o) > 0 <=> m > k
         /\ SameSeries(v, o) <=> Series[k] = Series[m]
  <2> TAKE k \in listed
  <2>1. PICK t : IsRelease(t) /\ Place(t) = k /\ Parse(t) \in others
    BY OthersAre
  <2>2. /\ Compare(v, Parse(t)) = 0 <=> m = Place(t)
        /\ Compare(v, Parse(t)) < 0 <=> m < Place(t)
        /\ Compare(v, Parse(t)) > 0 <=> m > Place(t)
        /\ SameSeries(v, Parse(t)) <=> Series[Place(t)] = Series[m]
    BY <2>1, CompareReleases
  <2> QED BY <2>1, <2>2
<1>4. StatusOfMine(v, list) =
        IF list = <<>> THEN "VS_EMPTY"
        ELSE IF \E o \in others : Compare(v, o) = 0 THEN "VS_RECOMMENDED"
        ELSE IF same # {} /\ newer # {} /\ same \cap newer = {} THEN "VS_NEW_IN_SERIES"
        ELSE IF newer # {} /\ older = {} THEN "VS_OLD"
        ELSE IF older # {} /\ newer = {} THEN "VS_NEW"
        ELSE "VS_UNRECOMMENDED"
  BY DEF StatusOfMine
<1> HIDE DEF m, listed, v, others
<1>5. (\E o \in others : Compare(v, o) = 0) <=> m \in listed
  BY <1>2, <1>3
<1>6. newer # {} <=> \E k \in listed : m < k
  BY <1>2, <1>3
<1>7. older # {} <=> \E k \in listed : m > k
  BY <1>2, <1>3
<1>8. same # {} <=> series # {}
  BY <1>2, <1>3
<1>9. same \cap newer # {} <=> \E k \in series : m < k
  BY <1>2, <1>3
<1> HIDE DEF same, newer, older
<1> DEFINE out == StatusOfMine(v, list)
           right == CASE list = <<>> -> "VS_EMPTY"
                      [] m \in listed -> "VS_RECOMMENDED"
                      [] listed # {} /\ (\A k \in listed : k < m) -> "VS_NEW"
                      [] listed # {} /\ (\A k \in listed : k > m) -> "VS_OLD"
                      [] series # {} /\ (\A k \in series : k < m)
                         /\ (\E k \in listed : k > m) -> "VS_NEW_IN_SERIES"
                      [] OTHER -> "VS_UNRECOMMENDED"
<1>10. ASSUME list = <<>> \/ m \in listed PROVE out = right
  <2>1. CASE list = <<>>
    BY <1>1, <1>4, <2>1
  <2>2. CASE list # <<>>
    BY <1>1, <1>4, <1>5, <1>10, <2>2
  <2> QED BY <2>1, <2>2
<1>11. ASSUME list # <<>>, m \notin listed PROVE out = right
  <2>1. \A k \in listed : k < m \/ k > m
    BY <1>1, <1>11
  <2>2. \A k \in listed : ~(k < m /\ k > m)
    BY <1>1
  <2>3. (\E k \in listed : m > k) /\ ~(\E k \in listed : m < k) <=> listed # {} /\ \A k \in listed : k < m
    BY <2>1, <2>2
  <2>4. (\E k \in listed : m < k) /\ ~(\E k \in listed : m > k) <=> listed # {} /\ \A k \in listed : k > m
    BY <2>1, <2>2
  <2>5. series # {} /\ (\E k \in listed : m < k) /\ ~(\E k \in series : m < k)
          <=> series # {} /\ (\A k \in series : k < m) /\ (\E k \in listed : k > m)
    BY <2>1, <2>2
  <2>6. series # {} /\ (\A k \in series : k < m) => \E k \in listed : m > k
    OBVIOUS
  <2>7. out = IF series # {} /\ (\E k \in listed : m < k) /\ ~(\E k \in series : m < k) THEN "VS_NEW_IN_SERIES"
              ELSE IF (\E k \in listed : m < k) /\ ~(\E k \in listed : m > k) THEN "VS_OLD"
              ELSE IF (\E k \in listed : m > k) /\ ~(\E k \in listed : m < k) THEN "VS_NEW"
              ELSE "VS_UNRECOMMENDED"
    BY <1>4, <1>5, <1>6, <1>7, <1>8, <1>9, <1>11
  <2> HIDE DEF out, series
  <2> QED BY <1>11, <2>3, <2>4, <2>5, <2>6, <2>7
<1>12. out = right
  BY <1>10, <1>11
<1> QED BY <1>12 DEF m, listed, v

-----------------------------------------------------------------------------
(* Sorting.                                                                *)

\* Some numbers have a least one.
LEMMA LeastNumber ==
    ASSUME NEW S, S \subseteq Nat, S # {}
    PROVE  \E n \in S : \A m \in S : n <= m
<1> DEFINE R == OpToRel(<, Nat)
<1>1. IsWellFoundedOn(R, Nat)
  BY NatLessThanWellFounded
<1>2. \A x, y \in Nat : x < y => <<x, y>> \in R
  BY DEF OpToRel
<1> HIDE DEF R
<1>3. PICK n \in S : \A m \in S : <<m, n>> \notin R
  BY <1>1, WFMin
<1>4. \A m \in S : n <= m
  <2> TAKE m \in S
  <2>1. m \in Nat /\ n \in Nat /\ ~(m < n)
    BY <1>2, <1>3
  <2> QED BY <2>1
<1> QED BY <1>4

\* Numbers that never go down from one to the next never go down.
LEMMA Upward ==
    ASSUME NEW n \in Nat, NEW f, \A i \in 1 .. n : f[i] \in Int,
           \A i \in 1 .. (n - 1) : f[i] <= f[i + 1]
    PROVE  \A i, j \in 1 .. n : i <= j => f[i] <= f[j]
<1> TAKE i \in 1 .. n
<1> DEFINE bad == {j \in 1 .. n : i <= j /\ ~(f[i] <= f[j])}
<1>1. SUFFICES ASSUME bad # {} PROVE FALSE
  OBVIOUS
<1>2. PICK j \in bad : \A k \in bad : j <= k
  <2>1. bad \subseteq Nat
    OBVIOUS
  <2> HIDE DEF bad
  <2> QED BY <1>1, <2>1, LeastNumber
<1>3. j # i
  OBVIOUS
<1>4. j - 1 \in 1 .. (n - 1) /\ i <= j - 1 /\ j - 1 \notin bad
  BY <1>2, <1>3
<1>5. f[i] <= f[j - 1]
  BY <1>4
<1>6. f[j - 1] <= f[(j - 1) + 1] /\ (j - 1) + 1 = j
  BY <1>4
<1>7. f[i] \in Int /\ f[j - 1] \in Int /\ f[j] \in Int
  BY <1>4
<1> QED BY <1>5, <1>6, <1>7

\* The elements of a set of numbers can be numbered by how many there are up to
\* each.
LEMMA Enumerated ==
    ASSUME NEW n \in Nat, NEW keep, keep \subseteq 1 .. n
    PROVE  LET C(i) == Cardinality({j \in keep : j <= i}) IN
           /\ Cardinality(keep) \in Nat
           /\ \A i \in keep : C(i) \in 1 .. Cardinality(keep)
           /\ \A k \in 1 .. Cardinality(keep) : \E i \in keep : C(i) = k
           /\ \A i, j \in keep : i < j => C(i) < C(j)
<1> DEFINE upto(i) == {j \in keep : j <= i}
           C(i) == Cardinality(upto(i))
<1>1. IsFiniteSet(keep) /\ Cardinality(keep) \in Nat
  <2>1. IsFiniteSet(1 .. n)
    BY FS_Interval
  <2>2. IsFiniteSet(keep)
    BY <2>1, FS_Subset
  <2> QED BY <2>2, FS_CardinalityType
<1>2. \A i : IsFiniteSet(upto(i)) /\ C(i) \in Nat
  <2> TAKE i
  <2>1. upto(i) \in SUBSET keep
    OBVIOUS
  <2> HIDE DEF upto
  <2> QED BY <1>1, <2>1, FS_Subset, FS_CardinalityType
<1>3. \A i \in 0 .. n : C(i) <= Cardinality(keep)
  <2> TAKE i \in 0 .. n
  <2>1. upto(i) \in SUBSET keep
    OBVIOUS
  <2> HIDE DEF upto
  <2> QED BY <1>1, <2>1, FS_Subset
<1>4. \A i \in 1 .. n : C(i) = IF i \in keep THEN C(i - 1) + 1 ELSE C(i - 1)
  <2> TAKE i \in 1 .. n
  <2>1. CASE i \in keep
    <3>0. \A j \in keep : j <= i <=> j <= i - 1 \/ j = i
      OBVIOUS
    <3>1. i \notin upto(i - 1)
      OBVIOUS
    <3>2. upto(i) = upto(i - 1) \cup {i}
      <4>1. \A j : j \in upto(i) <=> j \in upto(i - 1) \cup {i}
        BY <2>1, <3>0
      <4> HIDE DEF upto
      <4> QED BY <4>1
    <3> HIDE DEF upto
    <3> QED BY <1>2, <2>1, <3>1, <3>2, FS_AddElement
  <2>2. CASE i \notin keep
    <3>0. \A j \in keep : j <= i <=> j <= i - 1
      BY <2>2
    <3>1. upto(i) = upto(i - 1)
      BY <3>0
    <3> QED BY <2>2, <3>1
  <2> QED BY <2>1, <2>2
<1>5. C(0) = 0
  <2>0. \A j \in keep : ~(j <= 0)
    OBVIOUS
  <2>1. upto(0) = {}
    BY <2>0
  <2> HIDE DEF upto
  <2> QED BY <2>1, FS_EmptySet
<1>6. C(n) = Cardinality(keep)
  <2>0. \A j \in keep : j <= n
    OBVIOUS
  <2>1. upto(n) = keep
    BY <2>0
  <2> QED BY <2>1
<1> HIDE DEF C, upto
<1>7. \A i, j \in 0 .. n : i <= j => C(i) <= C(j)
  <2> DEFINE f == [i \in 1 .. n + 1 |-> C(i - 1)]
  <2>1. \A i \in 1 .. n + 1 : f[i] \in Int
    BY <1>2
  <2>2. \A i \in 1 .. ((n + 1) - 1) : f[i] <= f[i + 1]
    <3> TAKE i \in 1 .. ((n + 1) - 1)
    <3>1. f[i] = C(i - 1) /\ f[i + 1] = C(i) /\ i \in 1 .. n
      OBVIOUS
    <3>2. C(i) = C(i - 1) + 1 \/ C(i) = C(i - 1)
      BY <1>4, <3>1
    <3>3. C(i) \in Nat /\ C(i - 1) \in Nat
      BY <1>2
    <3> QED BY <3>1, <3>2, <3>3
  <2>3. \A i, j \in 1 .. n + 1 : i <= j => f[i] <= f[j]
    <3>1. n + 1 \in Nat
      OBVIOUS
    <3> HIDE DEF f
    <3> QED BY <2>1, <2>2, <3>1, Upward
  <2> TAKE i, j \in 0 .. n
  <2>4. i + 1 \in 1 .. n + 1 /\ j + 1 \in 1 .. n + 1 /\ f[i + 1] = C(i) /\ f[j + 1] = C(j)
    OBVIOUS
  <2> HIDE DEF f
  <2> QED BY <2>3, <2>4
<1>8. \A i, j \in keep : i < j => C(i) < C(j)
  <2> TAKE i, j \in keep
  <2> HAVE i < j
  <2>1. i \in 0 .. n /\ j - 1 \in 0 .. n /\ i <= j - 1 /\ j \in 1 .. n
    OBVIOUS
  <2>2. C(i) <= C(j - 1) /\ C(j) = C(j - 1) + 1
    BY <1>4, <1>7, <2>1
  <2>3. C(i) \in Nat /\ C(j - 1) \in Nat
    BY <1>2
  <2> QED BY <2>2, <2>3
<1>9. \A i \in keep : C(i) \in 1 .. Cardinality(keep)
  <2> TAKE i \in keep
  <2>1. C(i) = C(i - 1) + 1 /\ C(i) <= Cardinality(keep) /\ C(i - 1) \in Nat /\ C(i) \in Nat
    BY <1>2, <1>3, <1>4
  <2> QED BY <1>1, <2>1
<1>10. \A k \in 1 .. Cardinality(keep) : \E i \in keep : C(i) = k
  <2> TAKE k \in 1 .. Cardinality(keep)
  <2> DEFINE high == {i \in 0 .. n : C(i) >= k}
  <2>1. n \in high
    BY <1>1, <1>6
  <2>2. PICK i \in high : \A j \in high : i <= j
    <3>1. high \subseteq Nat
      OBVIOUS
    <3> HIDE DEF high
    <3> QED BY <2>1, <3>1, LeastNumber
  <2>3. i # 0
    BY <1>1, <1>5, <2>2
  <2>4. i \in 1 .. n /\ i - 1 \in 0 .. n /\ i - 1 \notin high
    BY <2>2, <2>3
  <2>5. C(i) \in Nat /\ C(i - 1) \in Nat /\ C(i) >= k /\ ~(C(i - 1) >= k)
    BY <1>2, <2>4
  <2>6. i \in keep
    BY <1>4, <2>4, <2>5
  <2>7. C(i) = k
    BY <1>1, <1>4, <2>4, <2>5, <2>6
  <2> QED BY <2>6, <2>7
<1> QED BY <1>1, <1>8, <1>9, <1>10 DEF C, upto

\* Where a text belongs in a sorted list: the releases first.
Rank(t) == IF IsRelease(t) THEN Place(t) ELSE Len(Releases) + TextRank(t)
AllTexts == {Texts[i] : i \in DOMAIN Texts}

\* The rank strcmp gives a text is its place among the texts.
LEMMA TextRankIs ==
    ASSUME NEW t \in AllTexts
    PROVE  TextRank(t) \in Nat \ {0} /\ Texts[TextRank(t)] = t
<1>1. \E i \in DOMAIN Texts : Texts[i] = t
  BY DEF AllTexts
<1>2. TextRank(t) \in DOMAIN Texts /\ Texts[TextRank(t)] = t
  BY <1>1 DEF TextRank
<1>3. DOMAIN Texts \subseteq Nat \ {0}
  BY ListsAssumption
<1> QED BY <1>2, <1>3

\* Texts of the same rank are one text, or name one release.
LEMMA RankIs ==
    ASSUME NEW s \in AllTexts, NEW t \in AllTexts
    PROVE  /\ Rank(s) \in Int
           /\ IsRelease(s) /\ ~IsRelease(t) => Rank(s) < Rank(t)
           /\ IsRelease(s) /\ IsRelease(t) => Rank(s) = Place(s) /\ Rank(t) = Place(t)
           /\ ~IsRelease(s) /\ ~IsRelease(t) => Rank(s) - Rank(t) = TextRank(s) - TextRank(t)
           /\ ~IsRelease(s) /\ Rank(s) = Rank(t) => s = t
<1>1. /\ TextRank(s) \in Nat \ {0} /\ Texts[TextRank(s)] = s
      /\ TextRank(t) \in Nat \ {0} /\ Texts[TextRank(t)] = t
  BY TextRankIs
<1>2. Len(Releases) \in Nat
  BY PlacesAreNumbers
<1>3. IsRelease(s) => Place(s) \in 1 .. Len(Releases)
  BY ReleaseIs, PlacesAreNumbers
<1>4. IsRelease(t) => Place(t) \in 1 .. Len(Releases)
  BY ReleaseIs, PlacesAreNumbers
<1> QED BY <1>1, <1>2, <1>3, <1>4 DEF Rank

\* compare_tor_version_str_ptr_ compares the ranks.
LEMMA CompareTextsIs ==
    ASSUME RevisionsNear, NEW s \in AllTexts, NEW t \in AllTexts
    PROVE  /\ CompareTexts(s, t) <= 0 <=> Rank(s) <= Rank(t)
           /\ CompareTexts(s, t) = 0 <=> Rank(s) = Rank(t)
<1>1. Parse(s).ok \in BOOLEAN /\ Parse(t).ok \in BOOLEAN
  <2>1. \A v \in Version : v.ok = TRUE
    BY DEF Version
  <2>2. Fail.ok = FALSE
    BY DEF Fail
  <2> QED BY <2>1, <2>2, ParseVersion
<1>2. (Parse(s).ok <=> IsRelease(s)) /\ (Parse(t).ok <=> IsRelease(t))
  BY ReleasesAssumption DEF AllTexts
<1>3. CompareTexts(s, t) =
        IF IsRelease(s) /\ IsRelease(t) THEN Compare(Parse(s), Parse(t))
        ELSE IF IsRelease(s) THEN -1
        ELSE IF IsRelease(t) THEN 1
        ELSE TextRank(s) - TextRank(t)
  BY <1>1, <1>2 DEF CompareTexts
<1>4. Rank(s) \in Int /\ Rank(t) \in Int /\ TextRank(s) \in Int /\ TextRank(t) \in Int
  BY RankIs, TextRankIs
<1>5. CASE IsRelease(s) /\ IsRelease(t)
  <2>1. /\ Compare(Parse(s), Parse(t)) \in Int
        /\ Compare(Parse(s), Parse(t)) = 0 <=> Rank(s) = Rank(t)
        /\ Compare(Parse(s), Parse(t)) < 0 <=> Rank(s) < Rank(t)
    BY <1>5, CompareReleases, RankIs
  <2> HIDE DEF Rank
  <2> QED BY <1>3, <1>4, <1>5, <2>1
<1>6. CASE IsRelease(s) /\ ~IsRelease(t)
  BY <1>3, <1>4, <1>6, RankIs
<1>7. CASE ~IsRelease(s) /\ IsRelease(t)
  BY <1>3, <1>4, <1>7, RankIs
<1>8. CASE ~IsRelease(s) /\ ~IsRelease(t)
  BY <1>3, <1>4, <1>8, RankIs
<1> QED BY <1>5, <1>6, <1>7, <1>8

\* What sorting makes of a list: the same texts, in the order of their ranks.
LEMMA SortedIs ==
    ASSUME RevisionsNear, NEW list \in Lists, NEW p \in Sorted(list)
    PROVE  \E n \in Nat :
              /\ list \in [1 .. n -> AllTexts] /\ p \in [1 .. n -> AllTexts]
              /\ \A i \in 1 .. n : \E j \in 1 .. n : list[i] = p[j]
              /\ \A i \in 1 .. n : \E j \in 1 .. n : p[i] = list[j]
              /\ \A i, j \in 1 .. n : i <= j => Rank(p[i]) <= Rank(p[j])
<1>1. PICK n \in Nat : list \in [1 .. n -> AllTexts]
  BY ListIs DEF AllTexts
<1>2. DOMAIN list = 1 .. n /\ Len(list) = n
  BY <1>1
<1>3. PICK f \in [1 .. n -> 1 .. n] :
         /\ \A i, j \in 1 .. n : f[i] = f[j] => i = j
         /\ p = [i \in 1 .. n |-> list[f[i]]]
         /\ \A i \in 1 .. (n - 1) : CompareTexts(p[i], p[i + 1]) <= 0
  BY <1>2 DEF Sorted
<1>4. p \in [1 .. n -> AllTexts] /\ \A i \in 1 .. n : \E j \in 1 .. n : p[i] = list[j]
  BY <1>1, <1>3
<1>5. \A i \in 1 .. n : \E j \in 1 .. n : f[j] = i
  <2>1. f \in Injection(1 .. n, 1 .. n)
    BY <1>3 DEF Injection, IsInjective
  <2>2. IsFiniteSet(1 .. n)
    BY FS_Interval
  <2>3. f \in Surjection(1 .. n, 1 .. n)
    BY <2>1, <2>2, FS_Injection
  <2> QED BY <2>3 DEF Surjection
<1>6. \A i \in 1 .. n : \E j \in 1 .. n : list[i] = p[j]
  <2> TAKE i \in 1 .. n
  <2>1. PICK j \in 1 .. n : f[j] = i
    BY <1>5
  <2> QED BY <1>3, <2>1
<1>7. \A i, j \in 1 .. n : i <= j => Rank(p[i]) <= Rank(p[j])
  <2> DEFINE r == [i \in 1 .. n |-> Rank(p[i])]
  <2>1. \A i \in 1 .. n : r[i] \in Int
    BY <1>4, RankIs
  <2>2. \A i \in 1 .. (n - 1) : r[i] <= r[i + 1]
    <3> TAKE i \in 1 .. (n - 1)
    <3>1. i \in 1 .. n /\ i + 1 \in 1 .. n
      OBVIOUS
    <3>2. p[i] \in AllTexts /\ p[i + 1] \in AllTexts
      BY <1>4, <3>1
    <3>3. Rank(p[i]) <= Rank(p[i + 1])
      BY <1>3, <3>2, CompareTextsIs
    <3> QED BY <3>1, <3>3
  <2>3. \A i, j \in 1 .. n : i <= j => r[i] <= r[j]
    <3> HIDE DEF r
    <3> QED BY <2>1, <2>2, Upward
  <2> QED BY <2>3
<1> QED BY <1>1, <1>4, <1>6, <1>7

\* What smartlist_uniq makes of a sorted list: each rank in it once, in order.
LEMMA UniqIs ==
    ASSUME RevisionsNear, NEW n \in Nat, NEW p \in [1 .. n -> AllTexts],
           \A i, j \in 1 .. n : i <= j => Rank(p[i]) <= Rank(p[j])
    PROVE  \E m \in Nat :
              /\ Uniq(p) \in [1 .. m -> AllTexts]
              /\ \A k \in 1 .. m : \E i \in 1 .. n : Uniq(p)[k] = p[i]
              /\ \A i \in 1 .. n : \E k \in 1 .. m : Rank(Uniq(p)[k]) = Rank(p[i])
              /\ \A k, l \in 1 .. m : k < l => Rank(Uniq(p)[k]) < Rank(Uniq(p)[l])
<1> DEFINE keep == {i \in 1 .. n : i = 1 \/ Rank(p[i - 1]) # Rank(p[i])}
           C(i) == Cardinality({j \in keep : j <= i})
           m == Cardinality(keep)
           e(k) == CHOOSE i \in keep : C(i) = k
           out == Uniq(p)
<1>1. keep = {i \in DOMAIN p : i = 1 \/ CompareTexts(p[i - 1], p[i]) # 0}
  <2>1. \A i \in 1 .. n : i # 1 => (Rank(p[i - 1]) # Rank(p[i]) <=> CompareTexts(p[i - 1], p[i]) # 0)
    <3> TAKE i \in 1 .. n
    <3> HAVE i # 1
    <3>1. i - 1 \in 1 .. n
      OBVIOUS
    <3>2. p[i] \in AllTexts /\ p[i - 1] \in AllTexts
      BY <3>1
    <3> QED BY <3>2, CompareTextsIs
  <2> QED BY <2>1
<1>2. out = [k \in 1 .. m |-> p[e(k)]]
  <2> DEFINE K == {i \in DOMAIN p : i = 1 \/ CompareTexts(p[i - 1], p[i]) # 0}
  <2>1. Uniq(p) = [k \in 1 .. Cardinality(K) |->
                     p[CHOOSE i \in K : Cardinality({j \in K : j <= i}) = k]]
    BY DEF Uniq
  <2>2. K = keep
    BY <1>1
  <2> HIDE DEF K, keep
  <2> QED BY <2>1, <2>2
<1>3. /\ m \in Nat
      /\ \A i \in keep : C(i) \in 1 .. m
      /\ \A k \in 1 .. m : \E i \in keep : C(i) = k
      /\ \A i, j \in keep : i < j => C(i) < C(j)
  <2>1. keep \subseteq 1 .. n
    OBVIOUS
  <2> HIDE DEF keep
  <2> QED BY <2>1, Enumerated
<1>4. \A i \in keep : i \in 1 .. n /\ (i = 1 \/ Rank(p[i - 1]) # Rank(p[i]))
  OBVIOUS
<1>5. \A i \in 1 .. n : i = 1 \/ Rank(p[i - 1]) # Rank(p[i]) => i \in keep
  OBVIOUS
<1> HIDE DEF keep, C, m, out
<1>6. \A k \in 1 .. m : e(k) \in keep /\ C(e(k)) = k
  BY <1>3
<1>7. \A i \in keep : e(C(i)) = i
  <2> TAKE i \in keep
  <2>1. C(i) \in 1 .. m /\ e(C(i)) \in keep /\ C(e(C(i))) = C(i)
    BY <1>3, <1>6
  <2>2. ~(i < e(C(i))) /\ ~(e(C(i)) < i)
    <3>1. C(i) \in Int
      BY <2>1
    <3> QED BY <1>3, <2>1, <3>1
  <2> QED BY <1>4, <2>1, <2>2
<1> HIDE DEF e
<1>8. out \in [1 .. m -> AllTexts] /\ \A k \in 1 .. m : \E i \in 1 .. n : out[k] = p[i]
  BY <1>2, <1>4, <1>6
<1>9. \A i \in 1 .. n : Rank(p[i]) \in Int
  BY RankIs
<1>10. \A k, l \in 1 .. m : k < l => Rank(out[k]) < Rank(out[l])
  <2> TAKE k, l \in 1 .. m
  <2> HAVE k < l
  <2>1. e(k) \in keep /\ e(l) \in keep /\ C(e(k)) = k /\ C(e(l)) = l
    BY <1>6
  <2>2. e(k) < e(l)
    <3>1. ~(e(l) < e(k)) /\ e(l) # e(k)
      BY <1>3, <2>1
    <3> QED BY <1>4, <2>1, <3>1
  <2>3. /\ e(k) \in 1 .. n /\ e(l) \in 1 .. n /\ e(l) - 1 \in 1 .. n /\ e(k) <= e(l) - 1
        /\ Rank(p[e(l) - 1]) # Rank(p[e(l)])
    BY <1>4, <2>1, <2>2
  <2>4. Rank(p[e(k)]) <= Rank(p[e(l) - 1]) /\ Rank(p[e(l) - 1]) <= Rank(p[e(l)])
    BY <2>3
  <2>5. Rank(p[e(k)]) < Rank(p[e(l)])
    BY <1>9, <2>3, <2>4
  <2> QED BY <1>2, <2>5
<1>11. \A i \in 1 .. n : \E k \in 1 .. m : Rank(out[k]) = Rank(p[i])
  <2> TAKE i \in 1 .. n
  <2> DEFINE same == {j \in 1 .. n : Rank(p[j]) = Rank(p[i])}
  <2>1. PICK j \in same : \A h \in same : j <= h
    <3>1. same \subseteq Nat /\ i \in same
      OBVIOUS
    <3> HIDE DEF same
    <3> QED BY <3>1, LeastNumber
  <2>2. j \in keep
    <3>1. CASE j = 1
      BY <1>5, <2>1, <3>1
    <3>2. CASE j # 1
      <4>1. j - 1 \in 1 .. n /\ j - 1 \notin same
        BY <2>1, <3>2
      <4> QED BY <1>5, <2>1, <4>1
    <3> QED BY <3>1, <3>2
  <2>3. C(j) \in 1 .. m /\ out[C(j)] = p[j]
    BY <1>2, <1>3, <1>7, <2>2
  <2> QED BY <2>1, <2>3
<1> QED BY <1>3, <1>8, <1>10, <1>11 DEF out

\* What ListsSorted says of a list and of what came of it.
SortedRight(list, once, out) ==
    /\ once \/ Len(out) = Len(list)
    /\ Places(out) = Places(list)
    /\ {out[i] : i \in DOMAIN out} \subseteq {list[i] : i \in DOMAIN list}
    /\ \A i \in DOMAIN list : IsRelease(list[i]) \/ \E j \in DOMAIN out : out[j] = list[i]
    /\ \A i, j \in DOMAIN out : i < j =>
          \/ IsRelease(out[i]) /\ ~IsRelease(out[j])
          \/ /\ IsRelease(out[i]) /\ IsRelease(out[j])
             /\ InOrder(once, Place(out[i]), Place(out[j]))
          \/ /\ ~IsRelease(out[i]) /\ ~IsRelease(out[j])
             /\ InOrder(once, TextRank(out[i]), TextRank(out[j]))

\* ListsSorted holds of the list that sort_version_list makes.
LEMMA SortIs ==
    ASSUME RevisionsNear, NEW list \in Lists, NEW p \in Sorted(list), NEW once \in BOOLEAN
    PROVE  SortedRight(list, once, IF once THEN Uniq(p) ELSE p)
<1> SUFFICES ASSUME NEW out, out = IF once THEN Uniq(p) ELSE p PROVE SortedRight(list, once, out)
  OBVIOUS
<1>1. PICK n \in Nat :
        /\ list \in [1 .. n -> AllTexts] /\ p \in [1 .. n -> AllTexts]
        /\ \A i \in 1 .. n : \E j \in 1 .. n : list[i] = p[j]
        /\ \A i \in 1 .. n : \E j \in 1 .. n : p[i] = list[j]
        /\ \A i, j \in 1 .. n : i <= j => Rank(p[i]) <= Rank(p[j])
  BY SortedIs
<1>2. \E m \in Nat :
        /\ out \in [1 .. m -> AllTexts]
        /\ once \/ m = n
        /\ \A k \in 1 .. m : \E i \in 1 .. n : out[k] = p[i]
        /\ \A i \in 1 .. n : \E k \in 1 .. m : Rank(out[k]) = Rank(p[i])
        /\ \A k, l \in 1 .. m : k < l => InOrder(once, Rank(out[k]), Rank(out[l]))
  <2>1. CASE once
    <3>1. out = Uniq(p)
      BY <2>1
    <3>2. PICK m \in Nat :
            /\ Uniq(p) \in [1 .. m -> AllTexts]
            /\ \A k \in 1 .. m : \E i \in 1 .. n : Uniq(p)[k] = p[i]
            /\ \A i \in 1 .. n : \E k \in 1 .. m : Rank(Uniq(p)[k]) = Rank(p[i])
            /\ \A k, l \in 1 .. m : k < l => Rank(Uniq(p)[k]) < Rank(Uniq(p)[l])
      BY <1>1, UniqIs
    <3>3. \A k, l \in 1 .. m : k < l => InOrder(once, Rank(Uniq(p)[k]), Rank(Uniq(p)[l]))
      BY <2>1, <3>2 DEF InOrder
    <3>4. /\ out \in [1 .. m -> AllTexts]
          /\ once \/ m = n
          /\ \A k \in 1 .. m : \E i \in 1 .. n : out[k] = p[i]
          /\ \A i \in 1 .. n : \E k \in 1 .. m : Rank(out[k]) = Rank(p[i])
          /\ \A k, l \in 1 .. m : k < l => InOrder(once, Rank(out[k]), Rank(out[l]))
      BY <2>1, <3>1, <3>2, <3>3, Zenon
    <3> QED BY <3>4, Zenon
  <2>2. CASE ~once
    <3>1. out = p
      BY <2>2
    <3>2. \A k, l \in 1 .. n : k < l => Rank(p[k]) <= Rank(p[l])
      BY <1>1
    <3> QED BY <1>1, <2>2, <3>1, <3>2 DEF InOrder
  <2> QED BY <2>1, <2>2
<1>21. PICK m \in Nat :
        /\ out \in [1 .. m -> AllTexts]
        /\ once \/ m = n
        /\ \A k \in 1 .. m : \E i \in 1 .. n : out[k] = p[i]
        /\ \A i \in 1 .. n : \E k \in 1 .. m : Rank(out[k]) = Rank(p[i])
        /\ \A k, l \in 1 .. m : k < l => InOrder(once, Rank(out[k]), Rank(out[l]))
  BY <1>2
<1>3. DOMAIN list = 1 .. n /\ DOMAIN out = 1 .. m
  BY <1>1, <1>21
<1>22. once \/ Len(out) = Len(list)
  BY <1>1, <1>21
<1>4. \A k \in 1 .. m : \E j \in 1 .. n : out[k] = list[j]
  <2> TAKE k \in 1 .. m
  <2>1. PICK i \in 1 .. n : out[k] = p[i]
    BY <1>21
  <2> QED BY <1>1, <2>1
<1>5. \A i \in 1 .. n : \E k \in 1 .. m : Rank(out[k]) = Rank(list[i])
  <2> TAKE i \in 1 .. n
  <2>1. PICK j \in 1 .. n : list[i] = p[j]
    BY <1>1
  <2> QED BY <1>21, <2>1
<1>6. \A i \in 1 .. n : list[i] \in AllTexts
  BY <1>1
<1>7. \A k \in 1 .. m : out[k] \in AllTexts
  BY <1>21
<1>8. \A i \in 1 .. n : IsRelease(list[i]) =>
         \E k \in 1 .. m : IsRelease(out[k]) /\ Place(out[k]) = Place(list[i])
  <2> TAKE i \in 1 .. n
  <2> HAVE IsRelease(list[i])
  <2>1. PICK k \in 1 .. m : Rank(out[k]) = Rank(list[i])
    BY <1>5
  <2>2. Rank(list[i]) \in Int
    BY <1>6, RankIs
  <2>3. IsRelease(out[k])
    BY <1>6, <1>7, <2>1, <2>2, RankIs
  <2>4. Rank(list[i]) = Place(list[i]) /\ Rank(out[k]) = Place(out[k])
    BY <1>6, <1>7, <2>3, RankIs
  <2> QED BY <2>1, <2>3, <2>4
<1>9. Places(out) = Places(list)
  <2>1. \A k \in Places(out) : k \in Places(list)
    BY <1>3, <1>4 DEF Places
  <2>2. \A k \in Places(list) : k \in Places(out)
    BY <1>3, <1>8 DEF Places
  <2> QED BY <2>1, <2>2
<1>10. {out[i] : i \in DOMAIN out} \subseteq {list[i] : i \in DOMAIN list}
  BY <1>3, <1>4
<1>11. \A i \in DOMAIN list : IsRelease(list[i]) \/ \E j \in DOMAIN out : out[j] = list[i]
  <2> TAKE i \in DOMAIN list
  <2>1. PICK k \in 1 .. m : Rank(out[k]) = Rank(list[i])
    BY <1>3, <1>5
  <2>2. ~IsRelease(list[i]) => out[k] = list[i]
    BY <1>3, <1>6, <1>7, <2>1, RankIs
  <2> QED BY <1>3, <2>1, <2>2
<1>12. \A i, j \in DOMAIN out : i < j =>
         \/ IsRelease(out[i]) /\ ~IsRelease(out[j])
         \/ /\ IsRelease(out[i]) /\ IsRelease(out[j])
            /\ InOrder(once, Place(out[i]), Place(out[j]))
         \/ /\ ~IsRelease(out[i]) /\ ~IsRelease(out[j])
            /\ InOrder(once, TextRank(out[i]), TextRank(out[j]))
  <2> TAKE i, j \in DOMAIN out
  <2> HAVE i < j
  <2>1. out[i] \in AllTexts /\ out[j] \in AllTexts /\ InOrder(once, Rank(out[i]), Rank(out[j]))
    BY <1>3, <1>7, <1>21
  <2>2. Rank(out[i]) \in Int /\ Rank(out[j]) \in Int /\ TextRank(out[i]) \in Int /\ TextRank(out[j]) \in Int
    BY <2>1, RankIs, TextRankIs
  <2>3. CASE IsRelease(out[i]) /\ IsRelease(out[j])
    <3>1. Rank(out[i]) = Place(out[i]) /\ Rank(out[j]) = Place(out[j])
      BY <2>1, <2>3, RankIs
    <3> QED BY <2>1, <2>3, <3>1
  <2>4. CASE ~IsRelease(out[i]) /\ ~IsRelease(out[j])
    <3>1. Rank(out[i]) - Rank(out[j]) = TextRank(out[i]) - TextRank(out[j])
      BY <2>1, <2>4, RankIs
    <3>2. InOrder(once, TextRank(out[i]), TextRank(out[j]))
      BY <2>1, <2>2, <3>1 DEF InOrder
    <3> QED BY <2>4, <3>2
  <2>5. CASE IsRelease(out[j]) /\ ~IsRelease(out[i])
    <3>1. Rank(out[j]) < Rank(out[i])
      BY <2>1, <2>5, RankIs
    <3> QED BY <2>1, <2>2, <3>1 DEF InOrder
  <2> QED BY <2>3, <2>4, <2>5
<1> QED BY <1>9, <1>10, <1>11, <1>12, <1>22 DEF SortedRight

-----------------------------------------------------------------------------
(* What a relay supports.                                                  *)

\* What is not negative is not below zero.
LEMMA NotBelow == \A x \in Int : x >= 0 <=> ~(x < 0)
  OBVIOUS

\* A relay is as new as a release unless it announces an older one.
LEMMA AsNewAsIs ==
    ASSUME RevisionsNear, NEW line \in DOMAIN Announced, At(line, 1) = "Tor ", NEW release, IsRelease(release)
    PROVE  /\ AsNewAs(line, release) <=> ~OlderThan(line, release)
           /\ AsNewAs(line, release) \in BOOLEAN
<1> DEFINE c == Parse(release)
           v == ParsePlatform(line)
<1>1. c.ok = TRUE
  <2>1. c \in Version
    BY CompareReleases
  <2> HIDE DEF c
  <2> QED BY <2>1 DEF Version
<1>2. AsNewAs(line, release) = (c.ok /\ (At(line, 1) # "Tor " \/ ~v.ok \/ Compare(v, c) >= 0))
  BY DEF AsNewAs
<1>3. CASE Announced[line] = <<>>
  <2>1. ~v.ok
    BY <1>3, AnnouncedAssumption
  <2> HIDE DEF c, v
  <2> QED BY <1>1, <1>2, <1>3, <2>1 DEF OlderThan
<1>4. CASE Announced[line] # <<>>
  <2> DEFINE a == Announced[line]
  <2>1. IsRelease(a) /\ v = Parse(a)
    BY <1>4, AnnouncedAssumption
  <2>2. /\ Compare(v, c) \in Int /\ v \in Version
        /\ Compare(v, c) < 0 <=> Place(a) < Place(release)
    BY <2>1, CompareReleases
  <2>3. v.ok = TRUE
    <3> HIDE DEF v
    <3> QED BY <2>2 DEF Version
  <2>4. Compare(v, c) >= 0 <=> ~(Place(a) < Place(release))
    <3> QED BY <2>2, NotBelow, Zenon
  <2>5. OlderThan(line, release) <=> Place(a) < Place(release)
    BY <1>4 DEF OlderThan
  <2> HIDE DEF c, v, a
  <2> QED BY <1>1, <1>2, <2>3, <2>4, <2>5
<1> QED BY <1>3, <1>4

\* Two summaries with the same flags set are the same.
LEMMA FlagsEqual ==
    ASSUME NEW g \in [Flags -> BOOLEAN], NEW h \in [Flags -> BOOLEAN],
           \A f \in Flags : g[f] <=> h[f]
    PROVE  g = h
<1>1. \A f \in Flags : g[f] = h[f]
  <2> TAKE f \in Flags
  <2>1. g[f] \in BOOLEAN /\ h[f] \in BOOLEAN
    OBVIOUS
  <2>2. CASE g[f] = TRUE
    BY <2>1, <2>2
  <2>3. CASE g[f] = FALSE
    BY <2>1, <2>3
  <2> QED BY <2>1, <2>2, <2>3
<1> QED BY <1>1

\* The flags that the corrections change.
LEMMA FlagsAre ==
    {"protocols_known", "supports_extend2_cells", "supports_v3_hsdir"} \subseteq Flags
  BY DEF Flags, Requires

\* A summary has the flags, each of them a truth value; with no protocols it has
\* none but the one that the protocols are known.
LEMMA ComputedIs ==
    ASSUME NEW protocols
    PROVE  /\ Computed(protocols) \in [Flags -> BOOLEAN]
           /\ Computed(protocols).protocols_known
           /\ Computed(protocols).supports_extend2_cells <=> "RELAY_EXTEND2" \in protocols
           /\ Computed(protocols).supports_v3_hsdir <=> "HSDIR_V3" \in protocols
           /\ \A f \in Flags \ {"protocols_known"} : ~Computed({})[f]
<1>1. Requires.supports_extend2_cells = {{"RELAY_EXTEND2"}} /\ Requires.supports_v3_hsdir = {{"HSDIR_V3"}}
  BY DEF Requires
<1>2. \A f \in DOMAIN Requires : {} \notin Requires[f]
  <2>1. /\ {} \notin Requires.supports_ed25519_link_handshake_compat
        /\ {} \notin Requires.supports_ed25519_link_handshake_any
        /\ {} \notin Requires.supports_extend2_cells
        /\ {} \notin Requires.supports_accepting_ipv6_extends
        /\ {} \notin Requires.supports_initiating_ipv6_extends
        /\ {} \notin Requires.supports_canonical_ipv6_conns
        /\ {} \notin Requires.supports_ed25519_hs_intro
        /\ {} \notin Requires.supports_establish_intro_dos_extension
        /\ {} \notin Requires.supports_v3_rendezvous_point
        /\ {} \notin Requires.supports_v3_hsdir
        /\ {} \notin Requires.supports_hs_setup_padding
        /\ {} \notin Requires.supports_congestion_control
        /\ {} \notin Requires.supports_conflux
        /\ {} \notin Requires.supports_ntor_v3
        /\ {} \notin Requires.supports_cgo
    BY DEF Requires
  <2>2. \A f \in DOMAIN Requires :
           \/ f = "supports_ed25519_link_handshake_compat"
           \/ f = "supports_ed25519_link_handshake_any"
           \/ f = "supports_extend2_cells"
           \/ f = "supports_accepting_ipv6_extends"
           \/ f = "supports_initiating_ipv6_extends"
           \/ f = "supports_canonical_ipv6_conns"
           \/ f = "supports_ed25519_hs_intro"
           \/ f = "supports_establish_intro_dos_extension"
           \/ f = "supports_v3_rendezvous_point"
           \/ f = "supports_v3_hsdir"
           \/ f = "supports_hs_setup_padding"
           \/ f = "supports_congestion_control"
           \/ f = "supports_conflux"
           \/ f = "supports_ntor_v3"
           \/ f = "supports_cgo"
    BY DEF Requires
  <2> QED BY <2>1, <2>2, Zenon
<1>3. \A f \in Flags \ {"protocols_known"} : {} \notin Requires[f]
  BY <1>2 DEF Flags
<1>4. \A P : \A f \in Flags :
         Computed(P)[f] <=> (f = "protocols_known" \/ \E needed \in Requires[f] : needed \subseteq P)
  BY DEF Computed
<1>5. Computed(protocols) \in [Flags -> BOOLEAN]
  BY DEF Computed
<1> HIDE DEF Computed, Flags, Requires
<1>6. Computed(protocols)["protocols_known"]
  BY <1>4, FlagsAre
<1>7. Computed(protocols)["supports_extend2_cells"] <=> {"RELAY_EXTEND2"} \subseteq protocols
  <2>1. Computed(protocols)["supports_extend2_cells"]
          <=> \E needed \in Requires["supports_extend2_cells"] : needed \subseteq protocols
    BY <1>4, FlagsAre
  <2> QED BY <1>1, <2>1
<1>8. Computed(protocols)["supports_v3_hsdir"] <=> {"HSDIR_V3"} \subseteq protocols
  <2>1. Computed(protocols)["supports_v3_hsdir"]
          <=> \E needed \in Requires["supports_v3_hsdir"] : needed \subseteq protocols
    BY <1>4, FlagsAre
  <2> QED BY <1>1, <2>1
<1>9. \A f \in Flags \ {"protocols_known"} : ~Computed({})[f]
  <2> TAKE f \in Flags \ {"protocols_known"}
  <2>1. \A needed \in Requires[f] : ~(needed \subseteq {})
    BY <1>3
  <2> QED BY <1>4, <2>1
<1> QED BY <1>5, <1>6, <1>7, <1>8, <1>9

\* What summarize_protover_flags makes of a summary that is in the map, or of none.
Summary(protocols, version) ==
    Corrected(IF protocols = {} THEN NoFlags ELSE Computed(protocols), version)

\* The corrections are those that SummariesRight names.
LEMMA SummaryIs ==
    ASSUME RevisionsNear, NEW supported, NEW version \in DOMAIN Announced
    PROVE  LET isTor == At(version, 1) = "Tor "
           IN  Summary(supported, version) =
                 [Computed(supported) EXCEPT
                    !.protocols_known = supported # {} \/ isTor,
                    !.supports_extend2_cells =
                        IF supported = {} THEN isTor /\ ~OlderThan(version, FirstExtend2)
                        ELSE "RELAY_EXTEND2" \in supported,
                    !.supports_v3_hsdir =
                        /\ "HSDIR_V3" \in supported
                        /\ ~(isTor /\ OlderThan(version, FirstHSDirV3))]
<1> DEFINE isTor == At(version, 1) = "Tor "
           known == supported # {} \/ isTor
           extend2 == IF supported = {} THEN isTor /\ ~OlderThan(version, FirstExtend2)
                      ELSE "RELAY_EXTEND2" \in supported
           hsdir == "HSDIR_V3" \in supported /\ ~(isTor /\ OlderThan(version, FirstHSDirV3))
           computed == Computed(supported)
           right == [computed EXCEPT !.protocols_known = known, !.supports_extend2_cells = extend2,
                                     !.supports_v3_hsdir = hsdir]
           out == IF supported = {} THEN NoFlags ELSE computed
           got == Corrected(out, version)
           extend2New == AsNewAs(version, FirstExtend2)
           hsdirNew == AsNewAs(version, FirstHSDirV3)
<1>1. got = IF ~isTor THEN out
            ELSE IF ~out.protocols_known
                 THEN [out EXCEPT !.protocols_known = TRUE, !.supports_extend2_cells = extend2New]
            ELSE IF hsdirNew THEN out
            ELSE [out EXCEPT !.supports_v3_hsdir = FALSE]
  BY DEF Corrected
<1>2. isTor => /\ extend2New <=> ~OlderThan(version, FirstExtend2)
               /\ hsdirNew <=> ~OlderThan(version, FirstHSDirV3)
               /\ extend2New \in BOOLEAN
  BY AsNewAsIs, AnnouncedAssumption
<1>3. /\ computed \in [Flags -> BOOLEAN]
      /\ computed["protocols_known"]
      /\ computed["supports_extend2_cells"] <=> "RELAY_EXTEND2" \in supported
      /\ computed["supports_v3_hsdir"] <=> "HSDIR_V3" \in supported
      /\ supported = {} => \A f \in Flags \ {"protocols_known"} : ~computed[f]
  BY ComputedIs
<1>4. NoFlags \in [Flags -> BOOLEAN] /\ \A f \in Flags : ~NoFlags[f]
  BY DEF NoFlags
<1>5. known \in BOOLEAN /\ extend2 \in BOOLEAN /\ hsdir \in BOOLEAN
  <2>1. known \in BOOLEAN
    OBVIOUS
  <2>2. extend2 \in BOOLEAN
    <3>1. CASE supported = {}
      BY <3>1
    <3>2. ASSUME supported # {} PROVE extend2 \in BOOLEAN
      <4>1. extend2 = ("RELAY_EXTEND2" \in supported)
        BY <3>2, Zenon
      <4>2. ("RELAY_EXTEND2" \in supported) \in BOOLEAN
        BY SMT
      <4> QED BY <4>1, <4>2, Zenon
    <3> QED BY <3>1, <3>2
  <2>3. hsdir \in BOOLEAN
    OBVIOUS
  <2> QED BY <2>1, <2>2, <2>3
<1>6. /\ right \in [Flags -> BOOLEAN]
      /\ right["protocols_known"] <=> known
      /\ right["supports_extend2_cells"] <=> extend2
      /\ right["supports_v3_hsdir"] <=> hsdir
      /\ \A f \in Flags \ {"protocols_known", "supports_extend2_cells", "supports_v3_hsdir"} :
            right[f] = computed[f]
  <2> HIDE DEF computed, known, extend2, hsdir
  <2> QED BY <1>3, <1>5, FlagsAre
<1>7. ASSUME got \in [Flags -> BOOLEAN],
             got["protocols_known"] <=> known,
             got["supports_extend2_cells"] <=> extend2,
             got["supports_v3_hsdir"] <=> hsdir,
             \A f \in Flags \ {"protocols_known", "supports_extend2_cells", "supports_v3_hsdir"} :
                got[f] <=> computed[f]
      PROVE  got = right
  <2>1. \A f \in Flags : got[f] <=> right[f]
    <3> HIDE DEF got, right, known, extend2, hsdir, computed
    <3> QED BY <1>6, <1>7
  <2> HIDE DEF got, right
  <2> QED BY <1>6, <1>7, <2>1, FlagsEqual
<1>8. known <=> supported # {} \/ isTor
  OBVIOUS
<1>9. /\ supported = {} => (extend2 <=> isTor /\ ~OlderThan(version, FirstExtend2))
      /\ supported # {} => (extend2 <=> "RELAY_EXTEND2" \in supported)
  OBVIOUS
<1>10. hsdir <=> "HSDIR_V3" \in supported /\ ~(isTor /\ OlderThan(version, FirstHSDirV3))
  OBVIOUS
<1>11. supported = {} => out = NoFlags
  OBVIOUS
<1>12. supported # {} => out = computed
  OBVIOUS
<1> HIDE DEF got, right, known, extend2, hsdir, computed, out, extend2New, hsdirNew
<1>13. ASSUME supported = {} PROVE got = right
  <2>1. /\ \A f \in Flags : ~out[f]
        /\ out \in [Flags -> BOOLEAN]
        /\ "HSDIR_V3" \notin supported
        /\ \A f \in Flags \ {"protocols_known"} : ~computed[f]
    BY <1>3, <1>4, <1>11, <1>13
  <2>2. CASE ~isTor
    <3>1. got = out
      BY <1>1, <2>2
    <3>2. ~known /\ ~extend2 /\ ~hsdir
      BY <1>8, <1>9, <1>10, <1>13, <2>1, <2>2
    <3>3. /\ ~got["protocols_known"] /\ ~got["supports_extend2_cells"] /\ ~got["supports_v3_hsdir"]
          /\ \A f \in Flags \ {"protocols_known"} : got[f] <=> computed[f]
      BY <2>1, <3>1, FlagsAre
    <3> QED BY <1>7, <2>1, <3>1, <3>2, <3>3
  <2>3. CASE isTor
    <3>1. got = [out EXCEPT !["protocols_known"] = TRUE, !["supports_extend2_cells"] = extend2New]
      BY <1>1, <2>1, <2>3, FlagsAre
    <3>2. /\ got \in [Flags -> BOOLEAN]
          /\ got["protocols_known"]
          /\ got["supports_extend2_cells"] <=> extend2New
          /\ \A f \in Flags \ {"protocols_known", "supports_extend2_cells"} : got[f] = out[f]
      BY <1>2, <2>1, <2>3, <3>1, FlagsAre
    <3>3. known /\ (extend2 <=> extend2New) /\ ~hsdir
      BY <1>2, <1>8, <1>9, <1>10, <1>13, <2>1, <2>3
    <3>4. /\ ~got["supports_v3_hsdir"]
          /\ \A f \in Flags \ {"protocols_known", "supports_extend2_cells", "supports_v3_hsdir"} :
                got[f] <=> computed[f]
      BY <2>1, <3>2, FlagsAre
    <3> QED BY <1>7, <3>2, <3>3, <3>4
  <2> QED BY <2>2, <2>3, <1>6
<1>14. ASSUME supported # {} PROVE got = right
  <2>1. out = computed /\ known /\ (extend2 <=> computed["supports_extend2_cells"])
    BY <1>3, <1>8, <1>9, <1>12, <1>14
  <2>2. CASE ~isTor \/ hsdirNew
    <3>1. hsdir <=> computed["supports_v3_hsdir"]
      BY <1>2, <1>3, <1>10, <2>2
    <3>2. got = computed
      BY <1>1, <1>3, <2>1, <2>2
    <3>3. /\ got["protocols_known"] <=> known
          /\ got["supports_extend2_cells"] <=> extend2
          /\ got["supports_v3_hsdir"] <=> hsdir
      BY <1>3, <2>1, <3>1, <3>2
    <3> QED BY <1>3, <1>7, <3>2, <3>3
  <2>3. CASE isTor /\ ~hsdirNew
    <3>1. ~hsdir
      BY <1>2, <1>10, <2>3
    <3>2. got = [computed EXCEPT !["supports_v3_hsdir"] = FALSE]
      BY <1>1, <1>3, <2>1, <2>3
    <3>3. /\ got \in [Flags -> BOOLEAN]
          /\ ~got["supports_v3_hsdir"]
          /\ \A f \in Flags \ {"supports_v3_hsdir"} : got[f] = computed[f]
      BY <1>3, <3>2, FlagsAre
    <3>4. /\ got["protocols_known"] <=> known
          /\ got["supports_extend2_cells"] <=> extend2
          /\ got["supports_v3_hsdir"] <=> hsdir
      <4>1. got["protocols_known"] = computed["protocols_known"]
        BY <3>3, FlagsAre
      <4>2. got["supports_extend2_cells"] = computed["supports_extend2_cells"]
        BY <3>3, FlagsAre
      <4> QED BY <1>3, <2>1, <3>1, <3>3, <4>1, <4>2
    <3>5. \A f \in Flags \ {"protocols_known", "supports_extend2_cells", "supports_v3_hsdir"} :
             got[f] <=> computed[f]
      BY <3>3
    <3> QED BY <1>7, <3>3, <3>4, <3>5
  <2> QED BY <2>2, <2>3
<1>15. got = right
  BY <1>13, <1>14
<1> QED BY <1>15 DEF Summary, got, right, known, extend2, hsdir, computed, out

-----------------------------------------------------------------------------
(* The calls of a process.                                                 *)

\* The summaries in the map are those of their lists, and there are not too many.
MapInv ==
    /\ protover_summary_map = [p \in DOMAIN protover_summary_map |-> Computed(p)]
    /\ IsFiniteSet(DOMAIN protover_summary_map)
    /\ Cardinality(DOMAIN protover_summary_map) <= MaxSummaries

\* What the last call returned comes from its arguments only.
LastInv ==
    /\ last.call = "is_obsolete" =>
          /\ IsRelease(last.mine) /\ last.list \in Lists
          /\ last.out = StatusOfMine(Parse(last.mine), last.list)
    /\ last.call = "sort" =>
          /\ last.list \in Lists /\ last.remove_duplicates \in BOOLEAN
          /\ \E p \in Sorted(last.list) :
                last.out = IF last.remove_duplicates THEN Uniq(p) ELSE p
    /\ last.call = "summarize" =>
          /\ last.version \in DOMAIN Announced
          /\ last.out = Summary(last.protocols, last.version)

\* The map after a list was summarised.
LEMMA MemoizedIs ==
    ASSUME MapInv, NEW protocols
    PROVE  /\ Memoized(protocols) = [p \in DOMAIN Memoized(protocols) |-> Computed(p)]
           /\ protocols \in DOMAIN Memoized(protocols)
           /\ IsFiniteSet(DOMAIN Memoized(protocols))
           /\ Cardinality(DOMAIN Memoized(protocols)) <= MaxSummaries
<1> DEFINE old == DOMAIN protover_summary_map
           map == IF Cardinality(old) >= MaxSummaries THEN <<>> ELSE protover_summary_map
           D == DOMAIN map
<1>1. Memoized(protocols) = [p \in D \cup {protocols} |-> IF p \in D THEN map[p] ELSE Computed(p)]
  BY DEF Memoized
<1>2. /\ \A p \in D : map[p] = Computed(p)
      /\ IsFiniteSet(D) /\ Cardinality(D) \in Nat /\ Cardinality(D) < MaxSummaries
  <2>1. CASE Cardinality(old) >= MaxSummaries
    <3>1. map = <<>>
      BY <2>1
    <3>2. D = {}
      BY <3>1
    <3> HIDE DEF D, map
    <3> QED BY <3>2, FS_EmptySet, WidthAssumption
  <2>2. CASE ~(Cardinality(old) >= MaxSummaries)
    <3>1. map = protover_summary_map /\ D = old
      BY <2>2
    <3>2. IsFiniteSet(old) /\ Cardinality(old) \in Nat
      BY FS_CardinalityType DEF MapInv
    <3>3. Cardinality(old) < MaxSummaries
      BY <2>2, <3>2, WidthAssumption
    <3>4. \A p \in old : protover_summary_map[p] = Computed(p)
      BY DEF MapInv
    <3> HIDE DEF D, map, old
    <3> QED BY <3>1, <3>2, <3>3, <3>4
  <2> QED BY <2>1, <2>2
<1> HIDE DEF D, map, old
<1>3. DOMAIN Memoized(protocols) = D \cup {protocols}
  BY <1>1
<1>4. Memoized(protocols) = [p \in DOMAIN Memoized(protocols) |-> Computed(p)]
  <2>1. \A p \in D \cup {protocols} : (IF p \in D THEN map[p] ELSE Computed(p)) = Computed(p)
    BY <1>2
  <2> QED BY <1>1, <1>3, <2>1
<1>5. IsFiniteSet(D \cup {protocols}) /\ Cardinality(D \cup {protocols}) <= MaxSummaries
  <2>1. /\ IsFiniteSet(D \cup {protocols})
        /\ Cardinality(D \cup {protocols}) = IF protocols \in D THEN Cardinality(D) ELSE Cardinality(D) + 1
    BY <1>2, FS_AddElement
  <2> QED BY <1>2, <2>1, WidthAssumption
<1> QED BY <1>3, <1>4, <1>5

\* Every call keeps the map right and computes from its arguments.
THEOREM VersionsInvariant == LibSpec => [](MapInv /\ LastInv)
<1>1. VersionsInit => MapInv /\ LastInv
  <2> SUFFICES ASSUME VersionsInit PROVE MapInv /\ LastInv
    OBVIOUS
  <2>1. protover_summary_map = <<>> /\ last.call = "none"
    BY DEF VersionsInit
  <2>2. DOMAIN protover_summary_map = {}
    BY <2>1
  <2>3. protover_summary_map = [p \in DOMAIN protover_summary_map |-> Computed(p)]
    BY <2>1, <2>2
  <2>4. MapInv
    BY <2>2, <2>3, FS_EmptySet, WidthAssumption DEF MapInv
  <2> QED BY <2>1, <2>4 DEF LastInv
<1>2. MapInv /\ LastInv /\ [LibNext]_versionVars => MapInv' /\ LastInv'
  <2> SUFFICES ASSUME MapInv, LastInv, [LibNext]_versionVars PROVE MapInv' /\ LastInv'
    OBVIOUS
  <2>1. ASSUME UNCHANGED protover_summary_map PROVE MapInv'
    BY <2>1 DEF MapInv
  <2>2. ASSUME NEW protocols \in Protocols, NEW version \in DOMAIN Announced,
               SummarizeProtoverFlags(protocols, version)
        PROVE  MapInv' /\ LastInv'
    <3> DEFINE map == IF protocols = {} THEN protover_summary_map ELSE Memoized(protocols)
    <3>1. /\ protover_summary_map' = map
          /\ last' = [call |-> "summarize", protocols |-> protocols, version |-> version,
                      out |-> Corrected(IF protocols = {} THEN NoFlags ELSE map[protocols], version)]
      BY <2>2 DEF SummarizeProtoverFlags
    <3>2. CASE protocols = {}
      <4>1. protover_summary_map' = protover_summary_map
        BY <3>1, <3>2
      <4>2. last' = [call |-> "summarize", protocols |-> protocols, version |-> version,
                     out |-> Summary(protocols, version)]
        BY <3>1, <3>2 DEF Summary
      <4> QED BY <2>1, <4>1, <4>2 DEF LastInv
    <3>3. CASE protocols # {}
      <4>1. protover_summary_map' = Memoized(protocols)
        BY <3>1, <3>3
      <4>2. MapInv'
        BY <4>1, MemoizedIs DEF MapInv
      <4>3. Memoized(protocols)[protocols] = Computed(protocols)
        BY MemoizedIs
      <4>4. last' = [call |-> "summarize", protocols |-> protocols, version |-> version,
                     out |-> Summary(protocols, version)]
        BY <3>1, <3>3, <4>3 DEF Summary
      <4> QED BY <4>2, <4>4 DEF LastInv
    <3> QED BY <3>2, <3>3
  <2>3. CASE ProtoverSummaryCacheFreeAll
    <3>1. protover_summary_map' = <<>> /\ last'.call = "free"
      BY <2>3 DEF ProtoverSummaryCacheFreeAll
    <3>2. DOMAIN protover_summary_map' = {}
      BY <3>1
    <3>3. protover_summary_map' = [p \in DOMAIN protover_summary_map' |-> Computed(p)]
      BY <3>1, <3>2
    <3> QED BY <3>1, <3>2, <3>3, FS_EmptySet, WidthAssumption DEF MapInv, LastInv
  <2>4. ASSUME NEW i \in DOMAIN Texts, NEW list \in Lists, TorVersionIsObsolete(Texts[i], list)
        PROVE  MapInv' /\ LastInv'
    <3>1. /\ last' = [call |-> "is_obsolete", mine |-> Texts[i], list |-> list,
                      out |-> StatusOfMine(Parse(Texts[i]), list)]
          /\ Parse(Texts[i]).ok /\ UNCHANGED protover_summary_map
      BY <2>4 DEF TorVersionIsObsolete
    <3>2. IsRelease(Texts[i])
      BY <3>1, ReleasesAssumption
    <3> QED BY <2>1, <3>1, <3>2 DEF LastInv
  <2>5. ASSUME NEW list \in Lists, NEW once \in BOOLEAN, SortVersionList(list, once)
        PROVE  MapInv' /\ LastInv'
    <3>1. PICK p \in Sorted(list) :
             last' = [call |-> "sort", list |-> list, remove_duplicates |-> once,
                      out |-> IF once THEN Uniq(p) ELSE p]
      BY <2>5 DEF SortVersionList
    <3>2. UNCHANGED protover_summary_map
      BY <2>5 DEF SortVersionList
    <3> QED BY <2>1, <3>1, <3>2 DEF LastInv
  <2>6. ASSUME NEW w, NEW len, InetNtop(w, len)
        PROVE  MapInv' /\ LastInv'
    BY <2>1, <2>6 DEF InetNtop, LastInv
  <2>7. ASSUME NEW form, InetPton(form)
        PROVE  MapInv' /\ LastInv'
    BY <2>1, <2>7 DEF InetPton, LastInv
  <2>8. ASSUME NEW octets, InetAton(octets)
        PROVE  MapInv' /\ LastInv'
    BY <2>1, <2>8 DEF InetAton, LastInv
  <2>9. CASE UNCHANGED versionVars
    BY <2>9 DEF versionVars, MapInv, LastInv
  <2> QED BY <2>2, <2>3, <2>4, <2>5, <2>6, <2>7, <2>8, <2>9 DEF LibNext, VersionsNext
<1> QED BY <1>1, <1>2, PTL DEF LibSpec

\* tor_version_is_obsolete judges the own version by its place among the
\* recommended releases, for every list of texts and every order of the releases:
\* if the revisions of one version are near each other as they are written, no
\* cast and no difference that wraps changes their order, on either side of the
\* largest int.
THEOREM StatusCorrect == RevisionsNear => (LibSpec => []RecommendedStatus)
<1> SUFFICES ASSUME RevisionsNear PROVE LibSpec => []RecommendedStatus
  OBVIOUS
<1>1. LastInv => RecommendedStatus
  <2> SUFFICES ASSUME LastInv, last.call = "is_obsolete" PROVE RecommendedStatus
    BY DEF RecommendedStatus
  <2>1. /\ IsRelease(last.mine) /\ last.list \in Lists
        /\ last.out = StatusOfMine(Parse(last.mine), last.list)
    BY DEF LastInv
  <2> QED BY <2>1, StatusIs DEF RecommendedStatus
<1> QED BY <1>1, VersionsInvariant, PTL

\* sort_version_list returns the releases oldest first and the other texts behind
\* them, each once if it removes duplicates, for every list, if the revisions of
\* one version are near each other.
THEOREM SortCorrect == RevisionsNear => (LibSpec => []ListsSorted)
<1> SUFFICES ASSUME RevisionsNear PROVE LibSpec => []ListsSorted
  OBVIOUS
<1>1. LastInv => ListsSorted
  <2> SUFFICES ASSUME LastInv, last.call = "sort" PROVE ListsSorted
    BY DEF ListsSorted
  <2>1. last.list \in Lists /\ last.remove_duplicates \in BOOLEAN
    BY DEF LastInv
  <2>2. \E p \in Sorted(last.list) : last.out = IF last.remove_duplicates THEN Uniq(p) ELSE p
    BY DEF LastInv
  <2> DEFINE once == last.remove_duplicates
             list == last.list
             out == last.out
  <2>3. PICK p \in Sorted(list) : out = IF once THEN Uniq(p) ELSE p
    BY <2>2
  <2>4. list \in Lists /\ once \in BOOLEAN
    BY <2>1
  <2> HIDE DEF once, list, out
  <2>5. SortedRight(list, once, out)
    BY <2>3, <2>4, SortIs, Zenon
  <2> QED BY <2>5, Zenon DEF SortedRight, ListsSorted, once, list, out
<1> QED BY <1>1, VersionsInvariant, PTL

\* A summary depends on the list of protocols and the version alone, whatever
\* was summarised before, and the map keeps within its bound, if the revisions of
\* one version are near each other.
THEOREM SummariesCorrect == RevisionsNear => (LibSpec => []SummariesRight)
<1> SUFFICES ASSUME RevisionsNear PROVE LibSpec => []SummariesRight
  OBVIOUS
<1>1. MapInv /\ LastInv => SummariesRight
  <2> SUFFICES ASSUME MapInv, LastInv PROVE SummariesRight
    OBVIOUS
  <2>1. Cardinality(DOMAIN protover_summary_map) <= MaxSummaries
    BY DEF MapInv
  <2>2. CASE last.call # "summarize"
    BY <2>1, <2>2 DEF SummariesRight
  <2>3. CASE last.call = "summarize"
    <3>1. last.version \in DOMAIN Announced /\ last.out = Summary(last.protocols, last.version)
      BY <2>3 DEF LastInv
    <3> DEFINE right(supported, version) ==
                 [Computed(supported) EXCEPT
                    !.protocols_known = supported # {} \/ At(version, 1) = "Tor ",
                    !.supports_extend2_cells =
                        IF supported = {} THEN At(version, 1) = "Tor " /\ ~OlderThan(version, FirstExtend2)
                        ELSE "RELAY_EXTEND2" \in supported,
                    !.supports_v3_hsdir =
                        /\ "HSDIR_V3" \in supported
                        /\ ~(At(version, 1) = "Tor " /\ OlderThan(version, FirstHSDirV3))]
    <3>2. \A supported : \A version \in DOMAIN Announced :
             Summary(supported, version) = right(supported, version)
      BY SummaryIs, Zenon
    <3>3. last.out = right(last.protocols, last.version)
      <4> HIDE DEF right
      <4> QED BY <3>1, <3>2
    <3> QED BY <2>1, <3>3, Zenon DEF SummariesRight
  <2> QED BY <2>2, <2>3
<1> QED BY <1>1, VersionsInvariant, PTL
=============================================================================
