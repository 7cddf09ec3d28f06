------------------------ MODULE BrowserClientProofs ------------------------
(***************************************************************************)
(* Proofs about the browser client, for any number of applications, calls  *)
(* in flight, browsers and session objects, and for any idle limit, buffer *)
(* and deadline KernelAssumption allows.  The mutex of the Kernel client   *)
(* is in its worker's memory, so what rests on it is proved of the         *)
(* behaviours in which it suffices: []Colocated is a hypothesis of those   *)
(* theorems, and met by every deployment with one worker.                  *)
(*                                                                         *)
(* The Kernel client is proved first.  Its invariant says of every call in *)
(* flight what the steps before it have established and nobody else can    *)
(* undo: where the row of its application has been cleared, that the       *)
(* browser it works on is the recorded one or dead, that a browser not     *)
(* recorded yet is known to it alone, and how much of the lease is left.   *)
(* The Rod client's invariant (RodBrowserProofs) and the Kernel client's   *)
(* are then put together for the client that chooses between them.         *)
(***************************************************************************)
EXTENDS BrowserClient, TLAPS

-----------------------------------------------------------------------------
(* What a Kernel call in flight relies on.                                 *)

StartSteps == {"connect", "clear", "acquire", "create", "save", "delete",
               "scrub", "release", "load", "renew", "execute"}

\* A start or a close holds its application's mutex.
Locks(c) == c.kind \in {"start", "close"}
Free(a) == \A i \in Slots : ~Locks(call[a][i])
\* Its application's row has been cleared, or was empty, and stays so.
Cleared(c) ==
    \/ c.kind = "start" /\ c.step \in {"acquire", "create", "save", "delete", "scrub", "release"}
    \/ c.kind = "close" /\ c.step = "release"
\* The recorded browser, if there still is one, is dead.
Doomed(c) == <<c.kind, c.step>> \in {<<"start", "clear">>, <<"close", "scrub">>}
\* It was created by this call and is not recorded.
Unsaved(c) == c.kind = "start" /\ c.step \in {"save", "delete"}
\* It was loaded from the row.
Using(c) == c.step \in {"renew", "execute"}

LeaseCovers(a, left) == lease.owner = a /\ lease.left >= left

StepOK(c) ==
    /\ c.kind = "none" => c.step = "idle"
    /\ c.kind = "start" => c.step \in StartSteps
    /\ c.kind = "operation" => c.step \in {"load", "renew", "execute"}
    /\ c.kind = "close" => c.step \in {"delete", "scrub", "release"} /\ c.browser = None
    /\ Unsaved(c) \/ Using(c) => c.browser # None

RowStepOK(a, c) ==
    /\ Cleared(c) => row[a].session = None
    /\ Doomed(c) => row[a].session = None \/ ~Alive(row[a].session)
    /\ Using(c) => row[a].session = c.browser \/ ~Alive(c.browser)

LeaseStepOK(a, c) ==
    /\ c.kind = "start" /\ c.step = "create" => LeaseCovers(a, IdleLimit + c.left)
    /\ Unsaved(c) /\ c.step = "save" /\ Alive(c.browser) => LeaseCovers(a, browser[c.browser])
    /\ c.step = "execute" /\ Alive(c.browser) => LeaseCovers(a, IdleLimit + c.left)

RunStepOK(a, c) ==
    /\ c.kind = "start" => run[a] = "open"
    /\ c.kind = "close" => run[a] # "closed"

CallOK(a, c) == StepOK(c) /\ RowStepOK(a, c) /\ LeaseStepOK(a, c) /\ RunStepOK(a, c)
CallsOK == \A a \in Apps, i \in Slots : CallOK(a, call[a][i])

\* A recorded browser came with the profile; WriterHoldsLease and CleanClose
\* for one application.
RowOK(a) ==
    /\ row[a].session # None => row[a].profile
    /\ row[a].session # None /\ Alive(row[a].session) => LeaseCovers(a, browser[row[a].session])
    /\ run[a] = "closed" => row[a].session = None
RowsOK == \A a \in Apps : RowOK(a)

OneLock == \A a \in Apps : \A i, j \in Slots : Locks(call[a][i]) /\ Locks(call[a][j]) => i = j

\* No row and no other call names a browser that was created and not recorded.
UnsavedIsOwn ==
    \A a \in Apps, i \in Slots : Unsaved(call[a][i]) =>
        \A x \in Apps :
            /\ row[x].session # call[a][i].browser
            /\ \A j \in Slots : call[x][j].browser = call[a][i].browser => x = a /\ j = i

KernelInv == WorldOK /\ CallsOK /\ RowsOK /\ OneLock /\ UnsavedIsOwn /\ NoBrowserForgotten

-----------------------------------------------------------------------------
(* Types.                                                                  *)

WorldTyped ==
    /\ row \in [Apps -> Row]
    /\ lease \in Lease
    /\ browser \in [Browsers -> 0..IdleLimit]
    /\ run \in [Apps -> {"open", "closing", "closed"}]
    /\ lost \subseteq Browsers

LEMMA Times ==
    /\ IdleLimit \in Nat /\ IdleLimit > 0 /\ Buffer \in Nat /\ Deadline \in Nat /\ Deadline <= Buffer
    /\ LeaseLength \in Nat /\ LeaseLength = IdleLimit + Buffer
BY KernelAssumption DEF LeaseLength

LEMMA Zero == 0 \in 0..Deadline
BY Times

LEMMA TypesNow ==
    ASSUME KernelInv
    PROVE  /\ WorldTyped
           /\ \A x \in Apps : /\ row[x] \in Row /\ row[x].session \in Browsers \cup {None}
                              /\ \A j \in Slots : call[x][j] \in Call
           /\ \A b \in Browsers : browser[b] \in 0..IdleLimit
           /\ lease.owner \in Apps \cup {None} /\ lease.left \in 0..LeaseLength
BY DEF KernelInv, WorldOK, WorldTyped, Row, Lease

LEMMA BrowsersNow ==
    ASSUME KernelInv
    PROVE  \A b \in Browsers : browser[b] \in Nat /\ browser[b] <= browser[b] /\ 0 <= browser[b]
<1> SUFFICES ASSUME NEW b \in Browsers
             PROVE  browser[b] \in Nat /\ browser[b] <= browser[b] /\ 0 <= browser[b]
  OBVIOUS
<1>1. browser[b] \in 0..IdleLimit
  BY TypesNow
<1> QED
  BY <1>1, Times

\* One call moves on, the others stay as they are.
LEMMA CallMoves ==
    ASSUME KernelInv, NEW a \in Apps, NEW i \in Slots, NEW new, Set(a, i, new)
    PROVE  /\ \A x \in Apps, j \in Slots : call'[x][j] = IF x = a /\ j = i THEN new ELSE call[x][j]
           /\ new \in Call => call' \in [Apps -> [Slots -> Call]]
<1>1. call \in [Apps -> [Slots -> Call]]
  BY DEF KernelInv, WorldOK
<1>2. call' = [call EXCEPT ![a] = [call[a] EXCEPT ![i] = new]]
  BY DEF Set
<1> QED
  BY <1>1, <1>2

-----------------------------------------------------------------------------
(* A step that moves one call: what is left to show of it is how it leaves *)
(* the world for the others, and what its own call may rely on.            *)

LEMMA OneCallMoves ==
    ASSUME KernelInv, NEW a \in Apps, NEW i \in Slots, NEW new \in Call, Set(a, i, new),
           WorldTyped', RowsOK',
           \A x \in Apps, j \in Slots : x # a \/ j # i => CallOK(x, call[x][j])',
           CallOK(a, call[a][i])',
           Locks(new) => Locks(call[a][i]) \/ Free(a),
           UnsavedIsOwn', NoBrowserForgotten'
    PROVE  KernelInv'
<1>1. call' \in [Apps -> [Slots -> Call]]
  BY CallMoves
<1>2. CallsOK'
  BY DEF CallsOK
<1>3. WorldOK'
  <2>1. \A x \in Apps, j \in Slots : StepOK(call'[x][j])
    BY <1>2 DEF CallsOK, CallOK
  <2>2. \A x \in Apps, j \in Slots :
            call'[x][j].step \in {"save", "renew", "execute"} \/ At(x, j, "start", "delete")'
               => call'[x][j].browser # None
    <3> SUFFICES ASSUME NEW x \in Apps, NEW j \in Slots,
                        call'[x][j].step \in {"save", "renew", "execute"} \/ At(x, j, "start", "delete")'
                 PROVE  call'[x][j].browser # None
      OBVIOUS
    <3>1. call'[x][j].kind \in {"none", "start", "operation", "close"}
      BY <1>1 DEF Call
    <3> QED
      BY <2>1, <3>1 DEF StepOK, Unsaved, Using, At
  <2> QED
    BY <1>1, <2>2 DEF WorldOK, WorldTyped
<1>4. OneLock'
  <2> SUFFICES ASSUME NEW x \in Apps, NEW j \in Slots, NEW k \in Slots,
                      Locks(call'[x][j]), Locks(call'[x][k])
               PROVE  j = k
    BY DEF OneLock
  <2>1. \A y \in Apps, m \in Slots : call'[y][m] = IF y = a /\ m = i THEN new ELSE call[y][m]
    BY CallMoves
  <2>2. Free(a) => \A m \in Slots : ~Locks(call[a][m])
    BY DEF Free
  <2> QED
    BY <2>1, <2>2 DEF KernelInv, OneLock
<1> QED
  BY <1>2, <1>3, <1>4 DEF KernelInv

\* What a step of call i of application a may do to the world and still leave
\* every other call what it relies on.
RowSpared(a, i) ==
    \A x \in Apps :
        /\ row'[x].session \in {row[x].session, None} \/ (x = a /\ Cleared(call[a][i]))
        /\ row'[x].session # row[x].session =>
               row[x].session = None \/ ~(browser'[row[x].session] > 0)
LeaseSpared(a, i) ==
    \A x \in Apps : lease.owner = x /\ lease.left > 0 =>
        \/ lease'.owner = x /\ lease'.left >= lease.left
        \/ x = a /\ Cleared(call[a][i])
BrowsersSpared(a, i) ==
    \A b \in Browsers :
        \/ browser'[b] <= browser[b]
        \/ Unnamed(b)
        \/ browser[b] > 0 /\ b = call[a][i].browser
RunsSpared(a, i) ==
    \A x \in Apps : run'[x] = run[x] \/ (x = a /\ (Free(a) \/ Locks(call[a][i])))
OthersSpared(a, i) ==
    RowSpared(a, i) /\ LeaseSpared(a, i) /\ BrowsersSpared(a, i) /\ RunsSpared(a, i)

LEMMA OthersKept ==
    ASSUME KernelInv, NEW a \in Apps, NEW i \in Slots, NEW new, Set(a, i, new),
           WorldTyped', OthersSpared(a, i),
           NEW x \in Apps, NEW j \in Slots, x # a \/ j # i
    PROVE  CallOK(x, call[x][j])'
<1> DEFINE c == call[x][j]
<1>1. call'[x][j] = c
  BY CallMoves
<1>2. CallOK(x, c) /\ c \in Call /\ c.browser \in Browsers \cup {None} /\ c.left \in Nat
  <2>1. c \in Call /\ Deadline \in Nat
    BY TypesNow, Times
  <2> QED
    BY <2>1 DEF KernelInv, CallsOK, Call
<1>3. x = a /\ Locks(c) => ~Locks(call[a][i]) /\ ~Free(a)
  BY DEF KernelInv, OneLock, Free
<1>4. Cleared(call[a][i]) => Locks(call[a][i]) /\ row[a].session = None
  BY DEF KernelInv, CallsOK, CallOK, RowStepOK, Cleared, Locks
<1>5. ~Unnamed(c.browser) /\ (row[x].session # None => ~Unnamed(row[x].session))
  BY DEF Unnamed
<1>6. StepOK(call'[x][j])
  BY <1>1, <1>2 DEF CallOK
<1>7. RowStepOK(x, call[x][j])'
  <2>1. Cleared(c) => row'[x].session = None
    <3>1. Cleared(c) => Locks(c) /\ row[x].session = None
      BY <1>2 DEF CallOK, RowStepOK, Cleared, Locks
    <3> QED
      BY <1>3, <1>4, <3>1 DEF OthersSpared, RowSpared
  <2>2. Doomed(c) => row'[x].session = None \/ ~(browser'[row'[x].session] > 0)
    <3>1. ASSUME Doomed(c), row'[x].session # None
          PROVE  row'[x].session = row[x].session
      BY <1>3, <1>4, <3>1 DEF OthersSpared, RowSpared, Doomed, Locks
    <3>2. ASSUME Doomed(c), row'[x].session # None
          PROVE  /\ row[x].session \in Browsers /\ browser[row[x].session] = 0
                 /\ browser'[row[x].session] \in Nat
      <4>1. ~Alive(row[x].session) /\ row[x].session \in Browsers
        BY <1>2, <3>1, <3>2, TypesNow DEF CallOK, RowStepOK
      <4> QED
        BY <4>1, TypesNow, Times DEF Alive, WorldTyped
    <3> QED
      BY <1>5, <3>1, <3>2 DEF OthersSpared, BrowsersSpared
  <2>3. Using(c) => row'[x].session = c.browser \/ ~(browser'[c.browser] > 0)
    <3>1. ASSUME Using(c), row[x].session # c.browser
          PROVE  ~(browser'[c.browser] > 0)
      <4>1. c.browser \in Browsers /\ ~Alive(c.browser)
        BY <1>2, <3>1 DEF CallOK, RowStepOK, StepOK
      <4>2. browser[c.browser] = 0 /\ browser'[c.browser] \in Nat
        BY <4>1, TypesNow, Times DEF Alive, WorldTyped
      <4> QED
        BY <1>5, <4>1, <4>2 DEF OthersSpared, BrowsersSpared
    <3>2. ASSUME Using(c), row[x].session = c.browser
          PROVE  row'[x].session = c.browser \/ ~(browser'[c.browser] > 0)
      BY <3>2, <1>2 DEF OthersSpared, RowSpared, CallOK, StepOK
    <3> QED
      BY <3>1, <3>2
  <2> QED
    BY <1>1, <2>1, <2>2, <2>3 DEF RowStepOK, Alive
<1>8. LeaseStepOK(x, call[x][j])'
  <2>1. ASSUME NEW n \in Nat, n > 0, LeaseCovers(x, n),
               ~(x = a /\ Cleared(call[a][i]))
        PROVE  lease'.owner = x /\ lease'.left >= n
    BY <2>1, TypesNow, Times DEF OthersSpared, LeaseSpared, LeaseCovers, WorldTyped, Lease
  <2>2. c.kind = "start" /\ c.step = "create" => LeaseCovers(x, IdleLimit + c.left)'
    <3>1. SUFFICES ASSUME c.kind = "start", c.step = "create"
                   PROVE  lease'.owner = x /\ lease'.left >= IdleLimit + c.left
      BY <1>1 DEF LeaseCovers
    <3>2. ~(x = a /\ Cleared(call[a][i])) /\ LeaseCovers(x, IdleLimit + c.left)
      BY <1>2, <1>3, <1>4, <3>1 DEF Locks, CallOK, LeaseStepOK
    <3> QED
      BY <1>2, <2>1, <3>2, Times
  <2>3. ASSUME Unsaved(c), c.step = "save", browser'[c.browser] > 0
        PROVE  lease'.owner = x /\ lease'.left >= browser'[c.browser]
    <3>1. /\ ~(x = a /\ Cleared(call[a][i])) /\ c.browser \in Browsers
          /\ Alive(c.browser) => LeaseCovers(x, browser[c.browser])
      BY <1>2, <1>3, <1>4, <2>3 DEF Locks, CallOK, LeaseStepOK, StepOK, Unsaved
    <3>2. c.browser # call[a][i].browser
      BY <1>2, <2>3 DEF KernelInv, UnsavedIsOwn
    <3>3. browser'[c.browser] <= browser[c.browser]
      BY <1>5, <3>1, <3>2 DEF OthersSpared, BrowsersSpared
    <3>4. browser[c.browser] \in Nat /\ browser'[c.browser] \in Nat /\ lease'.left \in Nat
      BY <3>1, TypesNow, Times DEF WorldTyped, Lease
    <3> QED
      BY <2>1, <2>3, <3>1, <3>3, <3>4 DEF Alive
  <2>4. ASSUME c.step = "execute", browser'[c.browser] > 0
        PROVE  lease'.owner = x /\ lease'.left >= IdleLimit + c.left
    <3>1. c.browser \in Browsers
      BY <1>2, <2>4 DEF CallOK, StepOK, Using
    <3>2. Alive(c.browser)
      <4>1. browser[c.browser] \in Nat /\ browser'[c.browser] \in Nat
        BY <3>1, TypesNow, Times DEF WorldTyped
      <4> QED
        BY <1>5, <2>4, <3>1, <4>1 DEF OthersSpared, BrowsersSpared, Alive
    <3>3. LeaseCovers(x, IdleLimit + c.left) /\ row[x].session = c.browser /\ c.browser # None
      BY <1>2, <2>4, <3>1, <3>2 DEF CallOK, LeaseStepOK, RowStepOK, StepOK, Using
    <3> QED
      BY <1>2, <1>4, <2>1, <3>3, Times
  <2> QED
    BY <1>1, <2>2, <2>3, <2>4 DEF LeaseStepOK, LeaseCovers, Alive
<1>9. RunStepOK(x, call[x][j])'
  BY <1>1, <1>2, <1>3 DEF OthersSpared, RunsSpared, CallOK, RunStepOK, Locks
<1> QED
  BY <1>6, <1>7, <1>8, <1>9 DEF CallOK
\* The rows: a row is at most cleared, browsers only fade, and a run is closed
\* with its row cleared.
FadeOrFresh == \A b \in Browsers : browser'[b] <= browser[b] \/ Unnamed(b)
RowsClearedOnly(a) ==
    \A x \in Apps :
        /\ row'[x] = row[x] \/ (x = a /\ row'[x].session = None)
        /\ run'[x] = "closed" => run[x] = "closed" \/ row'[x].session = None

LEMMA RowsKept ==
    ASSUME KernelInv, NEW a \in Apps, NEW i \in Slots, WorldTyped',
           LeaseSpared(a, i), FadeOrFresh, RowsClearedOnly(a)
    PROVE  RowsOK'
<1> SUFFICES ASSUME NEW x \in Apps
             PROVE  RowOK(x)'
  BY DEF RowsOK
<1>1. RowOK(x)
  BY DEF KernelInv, RowsOK
<1>2. CASE row'[x].session = None
  BY <1>2 DEF RowOK
<1>3. CASE row'[x].session # None
  <2> DEFINE s == row[x].session
  <2>1. row'[x] = row[x] /\ s \in Browsers /\ s # None
    BY <1>3, TypesNow DEF RowsClearedOnly
  <2>2. row'[x].profile /\ run'[x] # "closed"
    BY <1>1, <1>3, <2>1 DEF RowOK, RowsClearedOnly
  <2>3. ASSUME browser'[s] > 0
        PROVE  lease'.owner = x /\ lease'.left >= browser'[s]
    <3>1. browser'[s] <= browser[s]
      BY <2>1 DEF FadeOrFresh, Unnamed
    <3>2. browser[s] \in Nat /\ browser'[s] \in Nat /\ lease.left \in Nat /\ lease'.left \in Nat
      BY <2>1, TypesNow, Times DEF WorldTyped, Lease
    <3>3. lease.owner = x /\ lease.left >= browser[s]
      BY <1>1, <2>1, <2>3, <3>1, <3>2 DEF RowOK, Alive, LeaseCovers
    <3>4. ~(x = a /\ Cleared(call[a][i]))
      BY <2>1 DEF KernelInv, CallsOK, CallOK, RowStepOK
    <3> QED
      BY <2>3, <3>1, <3>2, <3>3, <3>4 DEF LeaseSpared
  <2> QED
    BY <2>1, <2>2, <2>3 DEF RowOK, Alive, LeaseCovers
<1> QED
  BY <1>2, <1>3

\* Browsers known to their own call only stay so.
LEMMA UnsavedKept ==
    ASSUME KernelInv, NEW a \in Apps, NEW i \in Slots, NEW new, Set(a, i, new), WorldTyped',
           \A x \in Apps : row'[x].session \in {row[x].session, None},
           new.browser \in {call[a][i].browser, None} \/ row[a].session = new.browser
               \/ Unnamed(new.browser),
           Unsaved(new) => /\ new.browser # None
                           /\ \/ Unsaved(call[a][i]) /\ new.browser = call[a][i].browser
                              \/ Unnamed(new.browser)
    PROVE  UnsavedIsOwn'
<1>1. \A x \in Apps, j \in Slots : call'[x][j] = IF x = a /\ j = i THEN new ELSE call[x][j]
  BY CallMoves
<1> SUFFICES ASSUME NEW y \in Apps, NEW k \in Slots, Unsaved(call'[y][k]),
                    NEW x \in Apps
             PROVE  /\ row'[x].session # call'[y][k].browser
                    /\ \A j \in Slots : call'[x][j].browser = call'[y][k].browser => x = y /\ j = k
  BY DEF UnsavedIsOwn
<1>2. CASE y = a /\ k = i /\ Unnamed(new.browser) /\ new.browser # None
  BY <1>1, <1>2 DEF Unnamed
<1>3. CASE Unsaved(call[y][k]) /\ call'[y][k].browser = call[y][k].browser
  <2>1. call[y][k].browser # None
    BY <1>3 DEF KernelInv, CallsOK, CallOK, StepOK
  <2>2. \A z \in Apps : /\ row[z].session # call[y][k].browser
                        /\ \A j \in Slots : call[z][j].browser = call[y][k].browser => z = y /\ j = k
    BY <1>3 DEF KernelInv, UnsavedIsOwn
  <2>3. ~Unnamed(call[y][k].browser)
    BY DEF Unnamed
  <2> QED
    BY <1>1, <1>3, <2>1, <2>2, <2>3
<1> QED
  BY <1>1, <1>2, <1>3

\* No browser is forgotten by a step that hands its own on, records it, kills
\* it or counts it as lost, and clears a row only of a dead one.
LEMMA NobodyForgotten ==
    ASSUME KernelInv, NEW a \in Apps, NEW i \in Slots, NEW new, Set(a, i, new), WorldTyped',
           lost \subseteq lost',
           \A x \in Apps : row'[x].session # row[x].session =>
               row[x].session = None \/ ~(browser'[row[x].session] > 0),
           \A b \in Browsers : browser'[b] > 0 /\ ~Alive(b) =>
               b \in lost' \/ (Unsaved(new) /\ new.browser = b),
           Unsaved(call[a][i]) /\ browser'[call[a][i].browser] > 0 =>
               \/ Unsaved(new) /\ new.browser = call[a][i].browser
               \/ call[a][i].browser \in lost'
               \/ \E x \in Apps : row'[x].session = call[a][i].browser
    PROVE  NoBrowserForgotten'
<1>1. \A x \in Apps, j \in Slots : call'[x][j] = IF x = a /\ j = i THEN new ELSE call[x][j]
  BY CallMoves
<1> SUFFICES ASSUME NEW b \in Browsers, browser'[b] > 0
             PROVE  \/ \E x \in Apps : row'[x].session = b
                    \/ \E x \in Apps, j \in Slots :
                          call'[x][j].step \in {"save", "delete"} /\ call'[x][j].browser = b
                    \/ b \in lost'
  BY DEF NoBrowserForgotten, Alive
<1>2. b # None
  BY KernelAssumption
<1>3. \A c : Unsaved(c) => c.step \in {"save", "delete"}
  BY DEF Unsaved
<1>4. CASE ~Alive(b)
  BY <1>1, <1>3, <1>4
<1>5. CASE \E x \in Apps : row[x].session = b
  BY <1>2, <1>5
<1>6. CASE b \in lost
  BY <1>6
<1>7. ASSUME NEW x \in Apps, NEW j \in Slots,
             call[x][j].step \in {"save", "delete"}, call[x][j].browser = b
      PROVE  \/ \E y \in Apps : row'[y].session = b
             \/ \E y \in Apps, k \in Slots :
                   call'[y][k].step \in {"save", "delete"} /\ call'[y][k].browser = b
             \/ b \in lost'
  <2>1. Unsaved(call[x][j])
    <3>1. call[x][j].kind \in {"none", "start", "operation", "close"} /\ StepOK(call[x][j])
      BY TypesNow DEF KernelInv, CallsOK, CallOK, Call
    <3> QED
      BY <1>2, <1>7, <3>1 DEF StepOK, Unsaved
  <2>2. CASE x = a /\ j = i
    BY <1>1, <1>3, <1>7, <2>1, <2>2
  <2>3. CASE ~(x = a /\ j = i)
    BY <1>1, <1>7, <2>3
  <2> QED
    BY <2>2, <2>3
<1> QED
  BY <1>4, <1>5, <1>6, <1>7 DEF KernelInv, NoBrowserForgotten
LEMMA CallNow ==
    ASSUME KernelInv, NEW a \in Apps, NEW i \in Slots
    PROVE  /\ call[a][i] \in Call /\ CallOK(a, call[a][i])
           /\ call[a][i].browser \in Browsers \cup {None} /\ call[a][i].left \in 0..Deadline
           /\ call[a][i].step \in Steps /\ call[a][i].kind \in {"none", "start", "operation", "close"}
BY TypesNow DEF KernelInv, CallsOK, Call

LEMMA WorldNow ==
    ASSUME KernelInv, UNCHANGED <<row, lease, browser, run>>, lost' \subseteq Browsers
    PROVE  /\ WorldTyped' /\ FadeOrFresh
           /\ \A a \in Apps : RowsClearedOnly(a)
           /\ \A a \in Apps, i \in Slots : OthersSpared(a, i)
<1>1. WorldTyped'
  BY TypesNow DEF WorldTyped
<1>2. \A b \in Browsers : browser'[b] <= browser[b]
  BY TypesNow, Times
<1>3. lease.left <= lease.left
  BY TypesNow, Times
<1> QED
  BY <1>1, <1>2, <1>3 DEF FadeOrFresh, RowsClearedOnly, OthersSpared, RowSpared, LeaseSpared,
     BrowsersSpared, RunsSpared

\* Nothing but the call changes.
LEMMA OnlyCallMoves ==
    ASSUME KernelInv, NEW a \in Apps, NEW i \in Slots, NEW new \in Call, Set(a, i, new),
           UNCHANGED <<row, lease, browser, run, lost>>,
           CallOK(a, new),
           Locks(new) => Locks(call[a][i]) \/ Free(a),
           new.browser \in {call[a][i].browser, row[a].session, None},
           Unsaved(new) => new.browser # None,
           Unsaved(new) <=> Unsaved(call[a][i]),
           Unsaved(new) => new.browser = call[a][i].browser
    PROVE  KernelInv'
<1>1. WorldTyped' /\ FadeOrFresh /\ RowsClearedOnly(a) /\ OthersSpared(a, i)
  BY WorldNow, TypesNow DEF WorldTyped
<1>2. RowsOK'
  BY <1>1, RowsKept DEF OthersSpared
<1>3. \A x \in Apps, j \in Slots : x # a \/ j # i => CallOK(x, call[x][j])'
  BY <1>1, OthersKept
<1>4. call'[a][i] = new
  BY CallMoves
<1>5. CallOK(a, call[a][i])'
  BY <1>4 DEF CallOK, StepOK, RowStepOK, LeaseStepOK, RunStepOK, LeaseCovers, Alive
<1>6. UnsavedIsOwn'
  BY <1>1, UnsavedKept
<1>7. NoBrowserForgotten'
  BY <1>1, NobodyForgotten DEF Alive
<1> QED
  BY <1>1, <1>2, <1>3, <1>5, <1>6, <1>7, OneCallMoves

-----------------------------------------------------------------------------
(* Steps that only move the call.                                          *)

LEMMA IdleOK == Idle \in Call /\ (\A a \in Apps : CallOK(a, Idle)) /\ ~Locks(Idle) /\ ~Unsaved(Idle)
BY Zero DEF Idle, Call, Steps, CallOK, StepOK, RowStepOK, LeaseStepOK, RunStepOK, Cleared, Doomed,
   Unsaved, Using, Locks

LEMMA ReturnKeeps ==
    ASSUME KernelInv, NEW a \in Apps, NEW i \in Slots, Return(a, i), ~Unsaved(call[a][i]),
           UNCHANGED <<row, lease, browser, run, lost>>
    PROVE  KernelInv'
<1>1. Set(a, i, Idle) /\ Idle.browser = None
  BY DEF Return, Idle
<1> QED
  BY <1>1, IdleOK, OnlyCallMoves

LEMMA FailKeeps ==
    ASSUME KernelInv, NEW a \in Apps, NEW i \in Slots, Fail(a, i)
    PROVE  KernelInv'
BY ReturnKeeps DEF Fail, Unsaved

LEMMA CloseFailsKeeps ==
    ASSUME KernelInv, NEW a \in Apps, NEW i \in Slots, CloseFails(a, i)
    PROVE  KernelInv'
BY ReturnKeeps DEF CloseFails, Unsaved

\* A start or a close that takes the mutex of its worker is alone with its
\* application, where calls on two workers do not meet.
LEMMA TakesMutex ==
    ASSUME KernelInv, Colocated', NEW a \in Apps, NEW i \in Slots, NEW new,
           Set(a, i, new), Locks(new), Unlocked(a, i)
    PROVE  Free(a)
<1> SUFFICES ASSUME NEW j \in Slots, Locks(call[a][j])
             PROVE  FALSE
  BY DEF Free
<1>1. j # i
  BY DEF Unlocked, Locks
<1>2. call'[a][i] = new /\ call'[a][j] = call[a][j]
  BY <1>1, CallMoves
<1>3. Host[j] = Host[i]
  BY <1>2 DEF Colocated, Locks
<1> QED
  BY <1>3 DEF Unlocked, Locks

LEMMA CallStartKeeps ==
    ASSUME KernelInv, Colocated', NEW a \in Apps, NEW i \in Slots, CallStart(a, i)
    PROVE  KernelInv'
<1> DEFINE new == Begin("start", "connect", Deadline)
<1>1. new \in Call /\ new.browser = None /\ ~Unsaved(new) /\ ~Unsaved(call[a][i])
  BY Times DEF Begin, Call, Steps, Unsaved, CallStart, Busy
<1>2. CallOK(a, new)
  BY DEF CallStart, Begin, CallOK, StepOK, RowStepOK, LeaseStepOK, RunStepOK, Cleared, Doomed,
     Unsaved, Using, StartSteps
<1>3. Free(a)
  BY TakesMutex DEF CallStart, Begin, Locks
<1> QED
  BY <1>1, <1>2, <1>3, OnlyCallMoves DEF CallStart

LEMMA CallOperationKeeps ==
    ASSUME KernelInv, NEW a \in Apps, NEW i \in Slots, CallOperation(a, i)
    PROVE  KernelInv'
<1> DEFINE new == Begin("operation", "load", Deadline)
<1>1. new \in Call /\ new.browser = None /\ ~Unsaved(new) /\ ~Unsaved(call[a][i]) /\ ~Locks(new)
  BY Times DEF Begin, Call, Steps, Unsaved, CallOperation, Busy, Locks
<1>2. CallOK(a, new)
  BY DEF CallOperation, Begin, CallOK, StepOK, RowStepOK, LeaseStepOK, RunStepOK, Cleared, Doomed,
     Unsaved, Using
<1> QED
  BY <1>1, <1>2, OnlyCallMoves DEF CallOperation

LEMMA ConnectKeeps ==
    ASSUME KernelInv, NEW a \in Apps, NEW i \in Slots, Connect(a, i)
    PROVE  KernelInv'
<1> DEFINE c == call[a][i]
           s == row[a].session
<1>1. c \in Call /\ CallOK(a, c) /\ c.kind = "start" /\ c.step = "connect"
  BY CallNow DEF Connect, At
<1>2. ~Unsaved(c) /\ Locks(c) /\ run[a] = "open"
  BY <1>1 DEF Unsaved, Locks, CallOK, RunStepOK
<1>3. PICK step \in {"acquire", "load", "clear"} :
          /\ To(a, i, step)
          /\ step = "acquire" => s = None
          /\ step = "clear" => ~Alive(s)
  BY DEF Connect
<1> DEFINE new == [c EXCEPT !.step = step]
<1>4. /\ new \in Call /\ new.kind = "start" /\ new.step = step /\ new.browser = c.browser
      /\ Set(a, i, new)
  BY <1>1, <1>3 DEF Call, Steps, To
<1> HIDE DEF new
<1>5. ~Unsaved(new) /\ Locks(new)
  BY <1>3, <1>4 DEF Unsaved, Locks
<1>6. CallOK(a, new)
  BY <1>2, <1>3, <1>4, <1>5 DEF CallOK, StepOK, RowStepOK, LeaseStepOK, RunStepOK, Cleared, Doomed,
     Using, StartSteps
<1> QED
  BY <1>2, <1>4, <1>5, <1>6, OnlyCallMoves DEF Connect

LEMMA CreateFailsKeeps ==
    ASSUME KernelInv, NEW a \in Apps, NEW i \in Slots, CreateFails(a, i)
    PROVE  KernelInv'
<1> DEFINE c == call[a][i]
           new == [c EXCEPT !.step = "release", !.left = 0]
<1>1. c \in Call /\ CallOK(a, c) /\ c.kind = "start" /\ c.step = "create"
  BY CallNow DEF CreateFails, At
<1>2. ~Unsaved(c) /\ Locks(c) /\ run[a] = "open" /\ row[a].session = None
  BY <1>1 DEF Unsaved, Locks, CallOK, RunStepOK, RowStepOK, Cleared
<1>3. /\ new \in Call /\ new.kind = "start" /\ new.step = "release" /\ new.browser = c.browser
      /\ Set(a, i, new)
  BY <1>1, Zero DEF Call, Steps, CreateFails, Detach
<1> HIDE DEF new
<1>4. ~Unsaved(new) /\ Locks(new) /\ CallOK(a, new)
  BY <1>2, <1>3 DEF Locks, CallOK, StepOK, RowStepOK, LeaseStepOK, RunStepOK, Cleared, Doomed,
     Unsaved, Using, StartSteps
<1> QED
  BY <1>2, <1>3, <1>4, OnlyCallMoves DEF CreateFails

LEMMA SaveFailsKeeps ==
    ASSUME KernelInv, NEW a \in Apps, NEW i \in Slots, SaveFails(a, i)
    PROVE  KernelInv'
<1> DEFINE c == call[a][i]
           new == [c EXCEPT !.step = "delete", !.left = 0]
<1>1. c \in Call /\ CallOK(a, c) /\ c.kind = "start" /\ c.step = "save"
  BY CallNow DEF SaveFails, At
<1>2. Unsaved(c) /\ Locks(c) /\ run[a] = "open" /\ row[a].session = None /\ c.browser # None
  BY <1>1 DEF Unsaved, Locks, CallOK, RunStepOK, RowStepOK, Cleared, StepOK
<1>3. /\ new \in Call /\ new.kind = "start" /\ new.step = "delete" /\ new.browser = c.browser
      /\ Set(a, i, new)
  BY <1>1, Zero DEF Call, Steps, SaveFails, Detach
<1> HIDE DEF new
<1>4. Unsaved(new) /\ Locks(new) /\ CallOK(a, new)
  BY <1>2, <1>3 DEF Locks, CallOK, StepOK, RowStepOK, LeaseStepOK, RunStepOK, Cleared, Doomed,
     Unsaved, Using, StartSteps
<1> QED
  BY <1>2, <1>3, <1>4, OnlyCallMoves DEF SaveFails

LEMMA LoadSessionKeeps ==
    ASSUME KernelInv, NEW a \in Apps, NEW i \in Slots, LoadSession(a, i)
    PROVE  KernelInv'
<1> DEFINE c == call[a][i]
           new == [c EXCEPT !.step = "renew", !.browser = row[a].session]
<1>1. c \in Call /\ CallOK(a, c) /\ c.step = "load" /\ row[a].session \in Browsers
  BY CallNow, TypesNow DEF LoadSession
<1>2. ~Unsaved(c) /\ row[a].session # None /\ c.kind \in {"start", "operation"}
  BY <1>1, CallNow DEF Unsaved, LoadSession, CallOK, StepOK
<1>3. /\ new \in Call /\ new.kind = c.kind /\ new.step = "renew" /\ new.browser = row[a].session
      /\ Set(a, i, new)
  BY <1>1 DEF Call, Steps, LoadSession, ToWith
<1> HIDE DEF new
<1>4. ~Unsaved(new) /\ (Locks(new) => Locks(c)) /\ CallOK(a, new)
  BY <1>1, <1>2, <1>3 DEF Locks, CallOK, StepOK, RowStepOK, LeaseStepOK, RunStepOK, Cleared, Doomed,
     Unsaved, Using, StartSteps
<1> QED
  BY <1>2, <1>3, <1>4, OnlyCallMoves DEF LoadSession
-----------------------------------------------------------------------------
(* Steps that move the lease.                                              *)

\* A lease somebody needs is not taken by another.
LEMMA AcquiredLease ==
    ASSUME KernelInv, NEW a \in Apps, AcquireLease(a)
    PROVE  /\ lease' \in Lease /\ lease'.owner = a /\ lease'.left = LeaseLength
           /\ \A i \in Slots : LeaseSpared(a, i)
<1>1. lease' = [owner |-> a, left |-> LeaseLength] /\ Acquirable(a)
  BY DEF AcquireLease
<1>2. LeaseLength \in 0..LeaseLength /\ LeaseLength \in Nat
  BY Times
<1>3. lease' \in Lease /\ lease'.owner = a /\ lease'.left = LeaseLength
  BY <1>1, <1>2 DEF Lease
<1>4. \A i \in Slots : LeaseSpared(a, i)
  BY <1>1, <1>3, TypesNow, KernelAssumption DEF LeaseSpared, Acquirable
<1> QED
  BY <1>3, <1>4

\* Nothing but the lease and the call changes.
LEMMA LeaseMoves ==
    ASSUME KernelInv, NEW a \in Apps, NEW i \in Slots, NEW new \in Call, Set(a, i, new),
           UNCHANGED <<row, browser, lost>>, run' \in [Apps -> {"open", "closing", "closed"}],
           RunsSpared(a, i), \A x \in Apps : run'[x] = "closed" => run[x] = "closed" \/ row[x].session = None,
           lease' \in Lease, LeaseSpared(a, i), CallOK(a, call[a][i])',
           Locks(new) => Locks(call[a][i]),
           new.browser \in {call[a][i].browser, None},
           ~Unsaved(new), ~Unsaved(call[a][i])
    PROVE  KernelInv'
<1>1. WorldTyped' /\ FadeOrFresh /\ RowsClearedOnly(a) /\ OthersSpared(a, i)
  <2>1. WorldTyped'
    BY TypesNow DEF WorldTyped
  <2>2. \A b \in Browsers : browser'[b] <= browser[b]
    BY TypesNow, Times
  <2> QED
    BY <2>1, <2>2 DEF FadeOrFresh, RowsClearedOnly, OthersSpared, RowSpared, BrowsersSpared
<1>2. RowsOK'
  BY <1>1, RowsKept DEF OthersSpared
<1>3. \A x \in Apps, j \in Slots : x # a \/ j # i => CallOK(x, call[x][j])'
  BY <1>1, OthersKept
<1>4. UnsavedIsOwn' /\ NoBrowserForgotten'
  BY <1>1, UnsavedKept, NobodyForgotten DEF Alive
<1> QED
  BY <1>1, <1>2, <1>3, <1>4, OneCallMoves

LEMMA AcquireProfileKeeps ==
    ASSUME KernelInv, NEW a \in Apps, NEW i \in Slots, AcquireProfile(a, i)
    PROVE  KernelInv'
<1> DEFINE c == call[a][i]
           new == [c EXCEPT !.step = "create"]
<1>1. c \in Call /\ CallOK(a, c) /\ c.kind = "start" /\ c.step = "acquire" /\ c.left \in 0..Deadline
  BY CallNow DEF AcquireProfile, At
<1>2. ~Unsaved(c) /\ Locks(c) /\ run[a] = "open" /\ row[a].session = None
  BY <1>1 DEF Unsaved, Locks, CallOK, RunStepOK, RowStepOK, Cleared
<1>3. /\ new \in Call /\ new.kind = "start" /\ new.step = "create" /\ new.browser = c.browser
      /\ new.left = c.left /\ Set(a, i, new)
  BY <1>1 DEF Call, Steps, AcquireProfile, To
<1> HIDE DEF new
<1>4. ~Unsaved(new) /\ Locks(new) /\ call'[a][i] = new
  BY <1>3, CallMoves DEF Locks, Unsaved
<1>5. /\ lease' \in Lease /\ LeaseSpared(a, i) /\ UNCHANGED <<row, browser, run, lost>>
      /\ lease'.owner = a /\ lease'.left = LeaseLength
  BY AcquiredLease DEF AcquireProfile
<1>6. lease'.owner = a /\ lease'.left >= IdleLimit + c.left
  BY <1>1, <1>5, Times
<1>7. CallOK(a, call[a][i])'
  BY <1>2, <1>3, <1>4, <1>5, <1>6 DEF CallOK, StepOK, RowStepOK, LeaseStepOK, RunStepOK, Cleared,
     Doomed, Unsaved, Using, StartSteps, LeaseCovers
<1>8. run' \in [Apps -> {"open", "closing", "closed"}]
  BY <1>5, TypesNow DEF WorldTyped
<1> QED
  BY <1>2, <1>3, <1>4, <1>5, <1>7, <1>8, LeaseMoves DEF RunsSpared

\* The renewal: the lease now covers the browser's whole idle limit for as long
\* as the call may run; a browser without profile is not recorded, so dead.
LEMMA RenewLeaseKeeps ==
    ASSUME KernelInv, NEW a \in Apps, NEW i \in Slots, RenewLease(a, i)
    PROVE  KernelInv'
<1> DEFINE c == call[a][i]
           new == [c EXCEPT !.step = "execute"]
<1>1. c \in Call /\ CallOK(a, c) /\ c.step = "renew" /\ c.left \in 0..Deadline /\ RowOK(a)
  BY CallNow DEF RenewLease, KernelInv, RowsOK
<1>2. /\ ~Unsaved(c) /\ c.browser # None /\ c.kind \in {"start", "operation"}
      /\ row[a].session = c.browser \/ ~Alive(c.browser)
  BY <1>1, CallNow DEF Unsaved, CallOK, StepOK, RowStepOK, Using
<1>3. /\ new \in Call /\ new.kind = c.kind /\ new.step = "execute" /\ new.browser = c.browser
      /\ new.left = c.left /\ Set(a, i, new)
  BY <1>1 DEF Call, Steps, RenewLease, To
<1> HIDE DEF new
<1>4. ~Unsaved(new) /\ (Locks(new) => Locks(c)) /\ call'[a][i] = new
  BY <1>3, CallMoves DEF Locks, Unsaved
<1>5. UNCHANGED <<row, browser, run, lost>>
  BY DEF RenewLease
<1>6. lease' \in Lease /\ LeaseSpared(a, i)
  <2>1. CASE AcquireLease(a)
    BY <2>1, AcquiredLease
  <2>2. CASE UNCHANGED lease
    <3>1. lease.left <= lease.left /\ lease \in Lease
      BY TypesNow, Times DEF WorldTyped
    <3> QED
      BY <2>2, <3>1 DEF LeaseSpared
  <2> QED
    BY <2>1, <2>2 DEF RenewLease
<1>7. ASSUME Alive(c.browser)
      PROVE  lease'.owner = a /\ lease'.left >= IdleLimit + c.left
  <2>1. AcquireLease(a)
    BY <1>1, <1>2, <1>7 DEF RowOK, RenewLease
  <2>2. IdleLimit + c.left <= LeaseLength
    BY <1>1, Times
  <2> QED
    BY <2>1, <2>2, AcquiredLease
<1>8. CallOK(a, call[a][i])'
  BY <1>1, <1>2, <1>3, <1>4, <1>5, <1>7 DEF CallOK, StepOK, RowStepOK, LeaseStepOK, RunStepOK, Cleared,
     Doomed, Unsaved, Using, StartSteps, LeaseCovers, Alive
<1>9. run' \in [Apps -> {"open", "closing", "closed"}]
  BY <1>5, TypesNow DEF WorldTyped
<1> QED
  BY <1>2, <1>3, <1>4, <1>5, <1>6, <1>8, <1>9, LeaseMoves DEF RunsSpared

\* A release is that of an application whose row is cleared.
LEMMA ReleasedLease ==
    ASSUME KernelInv, NEW a \in Apps, NEW i \in Slots, ReleaseLease(a), Cleared(call[a][i])
    PROVE  lease' \in Lease /\ LeaseSpared(a, i)
<1>1. lease' = [owner |-> None, left |-> 0] /\ lease.owner = a
  BY DEF ReleaseLease
<1>2. 0 \in 0..LeaseLength
  BY Times
<1> QED
  BY <1>1, <1>2 DEF Lease, LeaseSpared

LEMMA ReleaseUnusedKeeps ==
    ASSUME KernelInv, NEW a \in Apps, NEW i \in Slots, ReleaseUnused(a, i)
    PROVE  KernelInv'
<1>1. Cleared(call[a][i]) /\ ~Unsaved(call[a][i])
  BY DEF ReleaseUnused, At, Cleared, Unsaved
<1>2. CASE UNCHANGED lease
  BY <1>1, <1>2, ReturnKeeps DEF ReleaseUnused
<1>3. CASE ReleaseLease(a)
  <2>1. lease' \in Lease /\ LeaseSpared(a, i)
    BY <1>1, <1>3, ReleasedLease
  <2>2. UNCHANGED <<row, browser, run, lost>> /\ Set(a, i, Idle) /\ call'[a][i] = Idle
    BY CallMoves DEF ReleaseUnused, Return
  <2>3. CallOK(a, call[a][i])'
    BY <2>2 DEF Idle, CallOK, StepOK, RowStepOK, LeaseStepOK, RunStepOK, Cleared, Doomed, Unsaved, Using
  <2>4. run' \in [Apps -> {"open", "closing", "closed"}]
    BY <2>2, TypesNow DEF WorldTyped
  <2>5. Idle.browser = None
    BY DEF Idle
  <2> QED
    BY <1>1, <2>1, <2>2, <2>3, <2>4, <2>5, IdleOK, LeaseMoves DEF RunsSpared
<1> QED
  BY <1>2, <1>3 DEF ReleaseUnused

LEMMA ReleaseProfileKeeps ==
    ASSUME KernelInv, NEW a \in Apps, NEW i \in Slots, ReleaseProfile(a, i)
    PROVE  KernelInv'
<1>1. Cleared(call[a][i]) /\ ~Unsaved(call[a][i]) /\ Locks(call[a][i]) /\ row[a].session = None
  BY CallNow DEF ReleaseProfile, At, Cleared, Unsaved, Locks, CallOK, RowStepOK
<1>2. lease' \in Lease /\ LeaseSpared(a, i)
  BY <1>1, ReleasedLease DEF ReleaseProfile
<1>3. UNCHANGED <<row, browser, lost>> /\ Set(a, i, Idle) /\ call'[a][i] = Idle
  BY CallMoves DEF ReleaseProfile, Return
<1>4. CallOK(a, call[a][i])'
  BY <1>3 DEF Idle, CallOK, StepOK, RowStepOK, LeaseStepOK, RunStepOK, Cleared, Doomed, Unsaved, Using
<1>5. /\ run' \in [Apps -> {"open", "closing", "closed"}]
      /\ \A x \in Apps : run'[x] = run[x] \/ (x = a /\ run'[x] = "closed")
  BY TypesNow DEF WorldTyped, ReleaseProfile, Closed
<1>6. Idle.browser = None
  BY DEF Idle
<1> QED
  BY <1>1, <1>2, <1>3, <1>4, <1>5, <1>6, IdleOK, LeaseMoves DEF RunsSpared

-----------------------------------------------------------------------------
(* Steps that clear or write the row.                                      *)

\* The row of an application is cleared by a call that has deleted its browser,
\* found it dead or never recorded it.
LEMMA RowClears ==
    ASSUME KernelInv, NEW a \in Apps, NEW i \in Slots, NEW new \in Call, Set(a, i, new),
           ClearActive(a) \/ UNCHANGED row,
           Cleared(call[a][i]) \/ Doomed(call[a][i]),
           UNCHANGED <<lease, browser, lost>>,
           run' \in [Apps -> {"open", "closing", "closed"}], RunsSpared(a, i),
           \A x \in Apps : run'[x] = "closed" => run[x] = "closed" \/ row'[x].session = None,
           CallOK(a, call[a][i])',
           Locks(new) => Locks(call[a][i]),
           new.browser \in {call[a][i].browser, None},
           ~Unsaved(new), ~Unsaved(call[a][i])
    PROVE  KernelInv'
<1>1. \A x \in Apps : /\ row'[x] = row[x] \/ (x = a /\ row'[x].session = None)
                      /\ row'[x] \in Row
  BY TypesNow DEF ClearActive, WorldTyped, Row
<1>2. row' \in [Apps -> Row]
  BY TypesNow DEF ClearActive, WorldTyped, Row
<1>3. WorldTyped' /\ FadeOrFresh /\ RowsClearedOnly(a)
  <2>1. \A b \in Browsers : browser'[b] <= browser[b]
    BY TypesNow, Times
  <2> QED
    BY <1>1, <1>2, <2>1, TypesNow DEF WorldTyped, FadeOrFresh, RowsClearedOnly
<1>4. row[a].session = None \/ ~Alive(row[a].session)
  BY CallNow DEF CallOK, RowStepOK
<1>5. OthersSpared(a, i)
  <2>1. RowSpared(a, i)
    BY <1>1, <1>4 DEF RowSpared, Alive
  <2>2. LeaseSpared(a, i)
    <3>1. lease.left <= lease.left
      BY TypesNow, Times
    <3> QED
      BY <3>1 DEF LeaseSpared
  <2>3. BrowsersSpared(a, i)
    BY TypesNow, Times DEF BrowsersSpared
  <2> QED
    BY <2>1, <2>2, <2>3 DEF OthersSpared
<1>6. RowsOK'
  BY <1>3, <1>5, RowsKept DEF OthersSpared
<1>7. \A x \in Apps, j \in Slots : x # a \/ j # i => CallOK(x, call[x][j])'
  BY <1>3, <1>5, OthersKept
<1>8. UnsavedIsOwn'
  BY <1>1, <1>3, UnsavedKept
<1>9. NoBrowserForgotten'
  <2>1. \A x \in Apps : row'[x].session # row[x].session =>
            row[x].session = None \/ ~(browser'[row[x].session] > 0)
    BY <1>5 DEF OthersSpared, RowSpared
  <2> QED
    BY <1>3, <2>1, NobodyForgotten DEF Alive
<1> QED
  BY <1>3, <1>6, <1>7, <1>8, <1>9, OneCallMoves

LEMMA ClearExpiredKeeps ==
    ASSUME KernelInv, NEW a \in Apps, NEW i \in Slots, ClearExpired(a, i)
    PROVE  KernelInv'
<1> DEFINE c == call[a][i]
           new == [c EXCEPT !.step = "acquire"]
<1>1. c \in Call /\ CallOK(a, c) /\ c.kind = "start" /\ c.step = "clear"
  BY CallNow DEF ClearExpired, At
<1>2. ~Unsaved(c) /\ Locks(c) /\ Doomed(c) /\ run[a] = "open"
  BY <1>1 DEF Unsaved, Locks, Doomed, CallOK, RunStepOK
<1>3. /\ new \in Call /\ new.kind = "start" /\ new.step = "acquire" /\ new.browser = c.browser
      /\ Set(a, i, new)
  BY <1>1 DEF Call, Steps, ClearExpired, To
<1> HIDE DEF new
<1>4. /\ ~Unsaved(new) /\ Locks(new) /\ call'[a][i] = new
      /\ ClearActive(a) /\ row'[a].session = None /\ UNCHANGED <<lease, browser, run, lost>>
  BY <1>3, CallMoves, TypesNow DEF Locks, Unsaved, ClearExpired, ClearActive, WorldTyped, Row
<1>5. CallOK(a, call[a][i])'
  BY <1>2, <1>3, <1>4 DEF CallOK, StepOK, RowStepOK, LeaseStepOK, RunStepOK, Cleared, Doomed,
     Unsaved, Using, StartSteps
<1>6. run' \in [Apps -> {"open", "closing", "closed"}]
  BY <1>4, TypesNow DEF WorldTyped
<1> QED
  BY <1>2, <1>3, <1>4, <1>5, <1>6, RowClears DEF RunsSpared

LEMMA ScrubRowKeeps ==
    ASSUME KernelInv, NEW a \in Apps, NEW i \in Slots, ScrubRow(a, i)
    PROVE  KernelInv'
<1> DEFINE c == call[a][i]
           new == [c EXCEPT !.step = "release"]
<1>1. c \in Call /\ CallOK(a, c) /\ c.kind = "start" /\ c.step = "scrub"
  BY CallNow DEF ScrubRow, At
<1>2. /\ ~Unsaved(c) /\ Locks(c) /\ Cleared(c) /\ run[a] = "open"
      /\ row[a].session = None
  BY <1>1 DEF Unsaved, Locks, Cleared, CallOK, RunStepOK, RowStepOK
<1>3. /\ new \in Call /\ new.kind = "start" /\ new.step = "release" /\ new.browser = c.browser
      /\ Set(a, i, new)
  BY <1>1 DEF Call, Steps, ScrubRow, To
<1> HIDE DEF new
<1>4. /\ ~Unsaved(new) /\ Locks(new) /\ call'[a][i] = new
      /\ ClearActive(a) \/ UNCHANGED row
      /\ row'[a].session = None /\ UNCHANGED <<lease, browser, run, lost>>
  BY <1>2, <1>3, CallMoves, TypesNow DEF Locks, Unsaved, ScrubRow, ClearActive, WorldTyped, Row
<1>5. CallOK(a, call[a][i])'
  BY <1>2, <1>3, <1>4 DEF CallOK, StepOK, RowStepOK, LeaseStepOK, RunStepOK, Cleared, Doomed,
     Unsaved, Using, StartSteps
<1>6. run' \in [Apps -> {"open", "closing", "closed"}]
  BY <1>4, TypesNow DEF WorldTyped
<1> QED
  BY <1>2, <1>3, <1>4, <1>5, <1>6, RowClears DEF RunsSpared

LEMMA ClearClosedKeeps ==
    ASSUME KernelInv, NEW a \in Apps, NEW i \in Slots, ClearClosed(a, i)
    PROVE  KernelInv'
<1> DEFINE c == call[a][i]
           next == [c EXCEPT !.step = "release"]
<1>1. c \in Call /\ CallOK(a, c) /\ c.kind = "close" /\ c.step = "scrub"
  BY CallNow DEF ClearClosed, At
<1>2. /\ ~Unsaved(c) /\ Locks(c) /\ Doomed(c) /\ run[a] # "closed" /\ c.browser = None
  BY <1>1 DEF Unsaved, Locks, Doomed, CallOK, RunStepOK, StepOK
<1>3. PICK new \in {next, Idle} :
          /\ Set(a, i, new)
          /\ new = next => run' = run
          /\ new = Idle => Closed(a)
  <2>1. CASE row[a].profile
    <3>1. next # Idle /\ Set(a, i, next) /\ run' = run
      BY <1>1, <2>1 DEF ClearClosed, To, Idle, Call
    <3> QED
      BY <3>1
  <2>2. CASE ~row[a].profile
    <3>1. next # Idle /\ Set(a, i, Idle) /\ Closed(a)
      BY <1>1, <2>2 DEF ClearClosed, Return, Idle, Call
    <3> QED
      BY <3>1
  <2> QED
    BY <2>1, <2>2
<1>4. /\ next \in Call /\ next.kind = "close" /\ next.step = "release" /\ next.browser = None
      /\ Idle.kind = "none" /\ Idle.step = "idle" /\ Idle.browser = None
  BY <1>1, <1>2 DEF Call, Steps, Idle
<1> HIDE DEF next
<1>5. /\ new \in Call /\ new.browser = None /\ ~Unsaved(new) /\ call'[a][i] = new
      /\ ClearActive(a) /\ row'[a].session = None /\ UNCHANGED <<lease, browser, lost>>
  BY <1>3, <1>4, IdleOK, CallMoves, TypesNow DEF Unsaved, ClearClosed, ClearActive, WorldTyped, Row
<1>6. CallOK(a, call[a][i])'
  <2>1. CASE new = next
    BY <1>2, <1>3, <1>4, <1>5, <2>1 DEF CallOK, StepOK, RowStepOK, LeaseStepOK, RunStepOK, Cleared,
       Doomed, Unsaved, Using
  <2>2. CASE new = Idle
    BY <1>4, <1>5, <2>2 DEF CallOK, StepOK, RowStepOK, LeaseStepOK, RunStepOK, Cleared,
       Doomed, Unsaved, Using
  <2> QED
    BY <1>3, <2>1, <2>2
<1>7. /\ run' \in [Apps -> {"open", "closing", "closed"}]
      /\ \A x \in Apps : run'[x] = run[x] \/ (x = a /\ run'[x] = "closed")
  BY <1>3, TypesNow DEF WorldTyped, Closed
<1> QED
  BY <1>2, <1>3, <1>5, <1>6, <1>7, RowClears DEF RunsSpared

\* The recorded browser is covered by the lease its creation took.
LEMMA SaveSessionKeeps ==
    ASSUME KernelInv, NEW a \in Apps, NEW i \in Slots, SaveSession(a, i)
    PROVE  KernelInv'
<1> DEFINE c == call[a][i]
           b == c.browser
           new == [c EXCEPT !.step = "load", !.browser = None]
<1>1. c \in Call /\ CallOK(a, c) /\ c.kind = "start" /\ c.step = "save" /\ b \in Browsers
  BY CallNow DEF SaveSession, At, CallOK, StepOK, Unsaved
<1>2. /\ Unsaved(c) /\ Locks(c) /\ Cleared(c) /\ run[a] = "open" /\ row[a].session = None
      /\ Alive(b) => LeaseCovers(a, browser[b])
  BY <1>1 DEF Unsaved, Locks, Cleared, CallOK, RunStepOK, RowStepOK, LeaseStepOK
<1>3. /\ new \in Call /\ new.kind = "start" /\ new.step = "load" /\ new.browser = None
      /\ Set(a, i, new)
  BY <1>1 DEF Call, Steps, SaveSession, ToWith
<1> HIDE DEF new
<1>4. ~Unsaved(new) /\ Locks(new) /\ call'[a][i] = new /\ UNCHANGED <<lease, browser, run, lost>>
  BY <1>3, CallMoves DEF Locks, Unsaved, SaveSession
<1>5. /\ row' \in [Apps -> Row]
      /\ \A x \in Apps : row'[x] = IF x = a THEN [session |-> b, profile |-> TRUE] ELSE row[x]
  BY <1>1, TypesNow DEF SaveSession, SaveActive, WorldTyped, Row
<1>6. WorldTyped'
  BY <1>4, <1>5, TypesNow DEF WorldTyped
<1>7. OthersSpared(a, i)
  <2>1. RowSpared(a, i) /\ RunsSpared(a, i)
    BY <1>2, <1>4, <1>5 DEF RowSpared, RunsSpared
  <2>2. LeaseSpared(a, i)
    <3>1. lease.left <= lease.left
      BY TypesNow, Times
    <3> QED
      BY <1>4, <3>1 DEF LeaseSpared
  <2>3. BrowsersSpared(a, i)
    BY <1>4, TypesNow, Times DEF BrowsersSpared
  <2> QED
    BY <2>1, <2>2, <2>3 DEF OthersSpared
<1>8. RowsOK'
  <2> SUFFICES ASSUME NEW x \in Apps
               PROVE  RowOK(x)'
    BY DEF RowsOK
  <2>1. CASE x = a
    BY <1>2, <1>4, <1>5, <2>1 DEF RowOK, Alive, LeaseCovers
  <2>2. CASE x # a
    BY <1>4, <1>5, <2>2 DEF KernelInv, RowsOK, RowOK, Alive, LeaseCovers
  <2> QED
    BY <2>1, <2>2
<1>9. \A x \in Apps, j \in Slots : x # a \/ j # i => CallOK(x, call[x][j])'
  BY <1>3, <1>6, <1>7, OthersKept
<1>10. CallOK(a, call[a][i])'
  BY <1>2, <1>3, <1>4 DEF CallOK, StepOK, RowStepOK, LeaseStepOK, RunStepOK, Cleared, Doomed,
     Unsaved, Using, StartSteps
<1>11. UnsavedIsOwn'
  <2>1. \A x \in Apps, j \in Slots : call'[x][j] = IF x = a /\ j = i THEN new ELSE call[x][j]
    BY <1>3, CallMoves
  <2>2. \A x \in Apps, j \in Slots : call[x][j].browser = b => x = a /\ j = i
    BY <1>2 DEF KernelInv, UnsavedIsOwn
  <2> SUFFICES ASSUME NEW y \in Apps, NEW k \in Slots, Unsaved(call'[y][k]),
                      NEW x \in Apps
               PROVE  /\ row'[x].session # call'[y][k].browser
                      /\ \A j \in Slots : call'[x][j].browser = call'[y][k].browser => x = y /\ j = k
    BY DEF UnsavedIsOwn
  <2>3. call'[y][k] = call[y][k] /\ ~(y = a /\ k = i)
    BY <1>4, <2>1
  <2>4. call[y][k].browser # b /\ call[y][k].browser # None
    BY <2>2, <2>3, CallNow DEF CallOK, StepOK
  <2>5. /\ row[x].session # call[y][k].browser
        /\ \A j \in Slots : call[x][j].browser = call[y][k].browser => x = y /\ j = k
    BY <2>3 DEF KernelInv, UnsavedIsOwn
  <2> QED
    BY <1>3, <1>5, <2>1, <2>3, <2>4, <2>5
<1>12. NoBrowserForgotten'
  <2>1. \A x \in Apps : row'[x].session # row[x].session => row[x].session = None
    BY <1>2, <1>5
  <2>2. row'[a].session = b
    BY <1>5
  <2> QED
    BY <1>3, <1>4, <1>6, <2>1, <2>2, NobodyForgotten DEF Alive
<1> QED
  BY <1>2, <1>3, <1>6, <1>8, <1>9, <1>10, <1>11, <1>12, OneCallMoves

-----------------------------------------------------------------------------
(* Steps that create, use or delete a browser.                             *)

\* Browsers fade, die or are created; rows, lease and run stay.
LEMMA BrowserMoves ==
    ASSUME KernelInv, NEW a \in Apps, NEW i \in Slots, NEW new \in Call, Set(a, i, new),
           UNCHANGED <<row, lease, run>>,
           browser' \in [Browsers -> 0..IdleLimit], FadeOrFresh,
           lost \subseteq lost', lost' \subseteq Browsers,
           CallOK(a, call[a][i])',
           Locks(new) => Locks(call[a][i]),
           new.browser \in {call[a][i].browser, None} \/ Unnamed(new.browser),
           Unsaved(new) => /\ new.browser # None
                           /\ \/ Unsaved(call[a][i]) /\ new.browser = call[a][i].browser
                              \/ Unnamed(new.browser),
           \A b \in Browsers : browser'[b] > 0 /\ ~Alive(b) =>
               b \in lost' \/ (Unsaved(new) /\ new.browser = b),
           Unsaved(call[a][i]) /\ browser'[call[a][i].browser] > 0 =>
               \/ Unsaved(new) /\ new.browser = call[a][i].browser
               \/ call[a][i].browser \in lost'
    PROVE  KernelInv'
<1>1. WorldTyped' /\ RowsClearedOnly(a)
  BY TypesNow DEF WorldTyped, RowsClearedOnly
<1>2. OthersSpared(a, i)
  <2>1. LeaseSpared(a, i)
    <3>1. lease.left <= lease.left
      BY TypesNow, Times
    <3> QED
      BY <3>1 DEF LeaseSpared
  <2> QED
    BY <2>1 DEF OthersSpared, RowSpared, BrowsersSpared, RunsSpared, FadeOrFresh
<1>3. RowsOK'
  BY <1>1, <1>2, RowsKept DEF OthersSpared
<1>4. \A x \in Apps, j \in Slots : x # a \/ j # i => CallOK(x, call[x][j])'
  BY <1>1, <1>2, OthersKept
<1>5. UnsavedIsOwn' /\ NoBrowserForgotten'
  BY <1>1, UnsavedKept, NobodyForgotten
<1> QED
  BY <1>1, <1>3, <1>4, <1>5, OneCallMoves

LEMMA CreateBrowserKeeps ==
    ASSUME KernelInv, NEW a \in Apps, NEW i \in Slots, CreateBrowser(a, i)
    PROVE  KernelInv'
<1> DEFINE c == call[a][i]
<1>1. c \in Call /\ CallOK(a, c) /\ c.kind = "start" /\ c.step = "create" /\ c.left \in 0..Deadline
  BY CallNow DEF CreateBrowser, At
<1>2. /\ ~Unsaved(c) /\ Locks(c) /\ run[a] = "open" /\ row[a].session = None
      /\ lease.owner = a /\ lease.left >= IdleLimit + c.left
  BY <1>1 DEF Unsaved, Locks, Cleared, CallOK, RunStepOK, RowStepOK, LeaseStepOK, LeaseCovers
<1>3. PICK b \in Browsers :
          /\ ~Alive(b) /\ Unnamed(b)
          /\ browser' = [browser EXCEPT ![b] = IdleLimit]
          /\ \/ ToWith(a, i, "save", b) /\ UNCHANGED lost
             \/ Detach(a, i, "release") /\ lost' = lost \cup {b}
  BY DEF CreateBrowser
<1>4. /\ browser' \in [Browsers -> 0..IdleLimit]
      /\ \A x \in Browsers : browser'[x] = IF x = b THEN IdleLimit ELSE browser[x]
  BY <1>3, TypesNow, Times DEF WorldTyped
<1>5. FadeOrFresh
  <2>1. \A x \in Browsers : browser[x] <= browser[x]
    BY BrowsersNow
  <2> QED
    BY <1>3, <1>4, <2>1 DEF FadeOrFresh
<1>6. UNCHANGED <<row, lease, run>> /\ lost \subseteq Browsers /\ b # None
  BY TypesNow, KernelAssumption DEF CreateBrowser, WorldTyped
<1>7. CASE ToWith(a, i, "save", b) /\ UNCHANGED lost
  <2> DEFINE new == [c EXCEPT !.step = "save", !.browser = b]
  <2>1. /\ new \in Call /\ new.kind = "start" /\ new.step = "save" /\ new.browser = b
        /\ Set(a, i, new)
    BY <1>1, <1>7 DEF Call, Steps, ToWith
  <2> HIDE DEF new
  <2>2. Unsaved(new) /\ Locks(new) /\ call'[a][i] = new
    BY <2>1, CallMoves DEF Locks, Unsaved
  <2>3. lease'.owner = a /\ lease'.left >= browser'[b]
    BY <1>1, <1>2, <1>4, <1>6, TypesNow, Times
  <2>4. CallOK(a, call[a][i])'
    BY <1>2, <1>6, <2>1, <2>2, <2>3 DEF CallOK, StepOK, RowStepOK, LeaseStepOK, RunStepOK, Cleared,
       Doomed, Unsaved, Using, StartSteps, LeaseCovers
  <2>5. \A x \in Browsers : browser'[x] > 0 /\ ~Alive(x) => x = b
    BY <1>4 DEF Alive
  <2> QED
    BY <1>2, <1>3, <1>4, <1>5, <1>6, <1>7, <2>1, <2>2, <2>4, <2>5, BrowserMoves
<1>8. CASE Detach(a, i, "release") /\ lost' = lost \cup {b}
  <2> DEFINE new == [c EXCEPT !.step = "release", !.left = 0]
  <2>1. /\ new \in Call /\ new.kind = "start" /\ new.step = "release" /\ new.browser = c.browser
        /\ Set(a, i, new)
    BY <1>1, <1>8, Zero DEF Call, Steps, Detach
  <2> HIDE DEF new
  <2>2. ~Unsaved(new) /\ Locks(new) /\ call'[a][i] = new
    BY <2>1, CallMoves DEF Locks, Unsaved
  <2>3. CallOK(a, call[a][i])'
    BY <1>2, <1>6, <2>1, <2>2 DEF CallOK, StepOK, RowStepOK, LeaseStepOK, RunStepOK, Cleared,
       Doomed, Unsaved, Using, StartSteps
  <2>4. \A x \in Browsers : browser'[x] > 0 /\ ~Alive(x) => x \in lost'
    BY <1>4, <1>8 DEF Alive
  <2>5. lost \subseteq lost' /\ lost' \subseteq Browsers
    BY <1>6, <1>8
  <2> QED
    BY <1>2, <1>4, <1>5, <1>6, <2>1, <2>2, <2>3, <2>4, <2>5, BrowserMoves
<1> QED
  BY <1>3, <1>7, <1>8

LEMMA DeleteUnsavedKeeps ==
    ASSUME KernelInv, NEW a \in Apps, NEW i \in Slots, DeleteUnsaved(a, i)
    PROVE  KernelInv'
<1> DEFINE c == call[a][i]
           b == c.browser
           new == [c EXCEPT !.step = "scrub", !.browser = None]
<1>1. c \in Call /\ CallOK(a, c) /\ c.kind = "start" /\ c.step = "delete" /\ b \in Browsers
  BY CallNow DEF DeleteUnsaved, At, CallOK, StepOK, Unsaved
<1>2. Unsaved(c) /\ Locks(c) /\ run[a] = "open" /\ row[a].session = None
  BY <1>1 DEF Unsaved, Locks, Cleared, CallOK, RunStepOK, RowStepOK
<1>3. /\ new \in Call /\ new.kind = "start" /\ new.step = "scrub" /\ new.browser = None
      /\ Set(a, i, new)
  BY <1>1 DEF Call, Steps, DeleteUnsaved, ToWith
<1> HIDE DEF new
<1>4. ~Unsaved(new) /\ Locks(new) /\ call'[a][i] = new /\ UNCHANGED <<row, lease, run>>
  BY <1>3, CallMoves DEF Locks, Unsaved, DeleteUnsaved
<1>5. /\ browser' \in [Browsers -> 0..IdleLimit]
      /\ \A x \in Browsers : browser'[x] \in {browser[x], 0}
      /\ browser'[b] > 0 => b \in lost'
      /\ lost \subseteq lost' /\ lost' \subseteq Browsers
  <2>1. CASE browser' = [browser EXCEPT ![b] = 0] /\ UNCHANGED lost
    BY <1>1, <2>1, TypesNow, Times DEF WorldTyped
  <2>2. CASE UNCHANGED browser /\ lost' = IF Alive(b) THEN lost \cup {b} ELSE lost
    BY <1>1, <2>2, TypesNow DEF WorldTyped, Alive
  <2> QED
    BY <2>1, <2>2 DEF DeleteUnsaved
<1>6. FadeOrFresh /\ \A x \in Browsers : browser'[x] > 0 => Alive(x)
  <2>1. \A x \in Browsers : browser[x] <= browser[x] /\ 0 <= browser[x]
    BY BrowsersNow
  <2> QED
    BY <1>5, <2>1 DEF FadeOrFresh, Alive
<1>7. CallOK(a, call[a][i])'
  BY <1>2, <1>3, <1>4 DEF CallOK, StepOK, RowStepOK, LeaseStepOK, RunStepOK, Cleared,
     Doomed, Unsaved, Using, StartSteps
<1> QED
  BY <1>2, <1>3, <1>4, <1>5, <1>6, <1>7, BrowserMoves

LEMMA DeleteBrowserKeeps ==
    ASSUME KernelInv, NEW a \in Apps, NEW i \in Slots, DeleteBrowser(a, i)
    PROVE  KernelInv'
<1> DEFINE c == call[a][i]
           s == row[a].session
           next == [c EXCEPT !.step = "scrub"]
<1>1. c \in Call /\ CallOK(a, c) /\ c.kind = "close" /\ c.step = "delete"
  BY CallNow DEF DeleteBrowser, At
<1>2. ~Unsaved(c) /\ Locks(c) /\ run[a] # "closed" /\ c.browser = None
  BY <1>1 DEF Unsaved, Locks, CallOK, RunStepOK, StepOK
<1>3. PICK new \in {next, Idle} :
          /\ Set(a, i, new)
          /\ new = next => s = None \/ browser' = [browser EXCEPT ![s] = 0]
          /\ UNCHANGED browser \/ (s # None /\ browser' = [browser EXCEPT ![s] = 0])
  <2>1. next # Idle
    BY <1>1 DEF Idle, Call
  <2> QED
    BY <2>1 DEF DeleteBrowser, To, Return
<1>4. /\ next \in Call /\ next.kind = "close" /\ next.step = "scrub" /\ next.browser = None
      /\ Idle.kind = "none" /\ Idle.step = "idle" /\ Idle.browser = None
  BY <1>1, <1>2 DEF Call, Steps, Idle
<1> HIDE DEF next
<1>5. /\ new \in Call /\ new.browser = None /\ ~Unsaved(new) /\ call'[a][i] = new
      /\ UNCHANGED <<row, lease, run, lost>>
  BY <1>3, <1>4, IdleOK, CallMoves DEF Unsaved, DeleteBrowser
<1>6. /\ browser' \in [Browsers -> 0..IdleLimit]
      /\ \A x \in Browsers : browser'[x] \in {browser[x], 0}
      /\ new = next => s = None \/ ~(browser'[s] > 0)
  BY <1>3, TypesNow, Times DEF WorldTyped
<1>7. FadeOrFresh /\ \A x \in Browsers : browser'[x] > 0 => Alive(x)
  <2>1. \A x \in Browsers : browser[x] <= browser[x] /\ 0 <= browser[x]
    BY BrowsersNow
  <2> QED
    BY <1>6, <2>1 DEF FadeOrFresh, Alive
<1>8. CallOK(a, call[a][i])'
  <2>1. CASE new = next
    BY <1>2, <1>4, <1>5, <1>6, <2>1 DEF CallOK, StepOK, RowStepOK, LeaseStepOK, RunStepOK, Cleared,
       Doomed, Unsaved, Using, Alive
  <2>2. CASE new = Idle
    BY <1>4, <1>5, <2>2 DEF CallOK, StepOK, RowStepOK, LeaseStepOK, RunStepOK, Cleared,
       Doomed, Unsaved, Using
  <2> QED
    BY <1>3, <2>1, <2>2
<1>9. lost' \subseteq Browsers
  BY <1>5, TypesNow DEF WorldTyped
<1> QED
  BY <1>2, <1>3, <1>5, <1>6, <1>7, <1>8, <1>9, BrowserMoves

\* The renewed lease covers the browser it makes fresh again.
LEMMA ExecuteKeeps ==
    ASSUME KernelInv, NEW a \in Apps, NEW i \in Slots, Execute(a, i)
    PROVE  KernelInv'
<1> DEFINE c == call[a][i]
           b == c.browser
<1>1. /\ c \in Call /\ CallOK(a, c) /\ c.step = "execute" /\ b \in Browsers
      /\ ~Unsaved(c) /\ c.left \in Nat
  BY CallNow, Times DEF Execute, CallOK, StepOK, Using, Unsaved
<1>2. CASE ~Alive(b)
  BY <1>1, <1>2, ReturnKeeps DEF Execute
<1>3. CASE Alive(b)
  <2>1. /\ row[a].session = b /\ b # None
        /\ lease.owner = a /\ lease.left >= IdleLimit + c.left
    BY <1>1, <1>3 DEF CallOK, RowStepOK, LeaseStepOK, LeaseCovers, Using, StepOK
  <2>2. /\ browser' = [browser EXCEPT ![b] = IdleLimit] /\ UNCHANGED <<row, lease, run, lost>>
        /\ Set(a, i, Idle) /\ call'[a][i] = Idle
    BY <1>3, CallMoves DEF Execute, Return
  <2>3. /\ browser' \in [Browsers -> 0..IdleLimit]
        /\ \A x \in Browsers : browser'[x] = IF x = b THEN IdleLimit ELSE browser[x]
    <3> HIDE DEF b
    <3>1. browser \in [Browsers -> 0..IdleLimit] /\ IdleLimit \in 0..IdleLimit
      BY TypesNow, Times DEF WorldTyped
    <3> QED
      BY <2>2, <3>1
  <2>4. WorldTyped'
    BY <2>2, <2>3, TypesNow DEF WorldTyped
  <2>5. OthersSpared(a, i)
    <3>1. lease.left <= lease.left /\ \A x \in Browsers : browser[x] <= browser[x]
      BY BrowsersNow, TypesNow, Times
    <3> QED
      BY <1>3, <2>2, <2>3, <3>1 DEF OthersSpared, RowSpared, LeaseSpared, BrowsersSpared, RunsSpared,
         Alive
  <2>6. RowsOK'
    <3> SUFFICES ASSUME NEW x \in Apps
                 PROVE  RowOK(x)'
      BY DEF RowsOK
    <3>1. CASE x = a
      <4>1. lease'.left >= browser'[b]
        BY <1>1, <2>1, <2>2, <2>3, TypesNow, Times
      <4> QED
        BY <2>1, <2>2, <3>1, <4>1 DEF KernelInv, RowsOK, RowOK, Alive, LeaseCovers
    <3>2. CASE x # a
      <4>1. row[x].session # b
        BY <1>3, <2>1, <3>2 DEF KernelInv, RowsOK, RowOK, LeaseCovers
      <4>2. row[x].session # None => browser'[row[x].session] = browser[row[x].session]
        BY <2>3, <4>1, TypesNow
      <4> QED
        BY <2>2, <4>2 DEF KernelInv, RowsOK, RowOK, Alive, LeaseCovers
    <3> QED
      BY <3>1, <3>2
  <2>7. \A x \in Apps, j \in Slots : x # a \/ j # i => CallOK(x, call[x][j])'
    BY <2>2, <2>4, <2>5, OthersKept
  <2>8. CallOK(a, call[a][i])'
    BY <2>2 DEF Idle, CallOK, StepOK, RowStepOK, LeaseStepOK, RunStepOK, Cleared, Doomed, Unsaved, Using
  <2>9. UnsavedIsOwn' /\ NoBrowserForgotten'
    <3>1. Idle.browser = None /\ \A x \in Browsers : browser'[x] > 0 => Alive(x)
      BY <1>3, <2>3 DEF Idle, Alive
    <3> QED
      BY <1>1, <2>2, <2>4, <3>1, IdleOK, UnsavedKept, NobodyForgotten
  <2> QED
    BY <2>2, <2>4, <2>6, <2>7, <2>8, <2>9, IdleOK, OneCallMoves
<1> QED
  BY <1>2, <1>3

-----------------------------------------------------------------------------
(* The workflow, the worker and time.                                      *)

\* A run begins, while a close of the last one may be in flight.
LEMMA BeginRunKeeps ==
    ASSUME KernelInv, NEW a \in Apps, NEW w \in Workers, BeginRun(a, w)
    PROVE  KernelInv'
<1>1. /\ UNCHANGED <<row, lease, browser, call, lost>>
      /\ run' \in [Apps -> {"open", "closing", "closed"}]
      /\ \A x \in Apps : run'[x] = IF x = a THEN "open" ELSE run[x]
  BY TypesNow DEF BeginRun, WorldTyped
<1>2. WorldOK' /\ OneLock' /\ UnsavedIsOwn' /\ NoBrowserForgotten'
  BY <1>1 DEF KernelInv, WorldOK, At, OneLock, UnsavedIsOwn, NoBrowserForgotten, Alive
<1>3. CallsOK'
  <2> SUFFICES ASSUME NEW x \in Apps, NEW i \in Slots
               PROVE  CallOK(x, call[x][i])'
    BY DEF CallsOK
  <2>1. CallOK(x, call[x][i])
    BY CallNow
  <2> QED
    BY <1>1, <2>1 DEF CallOK, StepOK, RowStepOK, LeaseStepOK, RunStepOK, LeaseCovers, Alive
<1>4. RowsOK'
  BY <1>1 DEF KernelInv, RowsOK, RowOK, LeaseCovers, Alive
<1> QED
  BY <1>2, <1>3, <1>4 DEF KernelInv

LEMMA CallCloseKeeps ==
    ASSUME KernelInv, Colocated', NEW a \in Apps, NEW i \in Slots, CallClose(a, i)
    PROVE  KernelInv'
<1> DEFINE new == Begin("close", "delete", 0)
<1>1. /\ new \in Call /\ new.kind = "close" /\ new.step = "delete" /\ new.browser = None
      /\ Set(a, i, new) /\ Unlocked(a, i) /\ ~Unsaved(call[a][i])
  BY Zero DEF Begin, Call, Steps, CallClose, Busy, Unsaved
<1> HIDE DEF new
<1>2. ~Unsaved(new) /\ call'[a][i] = new /\ Free(a)
  BY <1>1, CallMoves, TakesMutex DEF Unsaved, Locks
<1>3. /\ UNCHANGED <<row, lease, browser, lost>>
      /\ run' \in [Apps -> {"open", "closing", "closed"}]
      /\ \A x \in Apps : run'[x] = IF x = a THEN "closing" ELSE run[x]
  BY TypesNow DEF CallClose, WorldTyped
<1>4. WorldTyped' /\ RowsClearedOnly(a)
  BY <1>3, TypesNow DEF WorldTyped, RowsClearedOnly
<1>5. FadeOrFresh /\ OthersSpared(a, i)
  <2>1. lease.left <= lease.left /\ \A b \in Browsers : browser[b] <= browser[b]
    BY BrowsersNow, TypesNow, Times
  <2> QED
    BY <1>2, <1>3, <2>1 DEF FadeOrFresh, OthersSpared, RowSpared, LeaseSpared, BrowsersSpared, RunsSpared
<1>6. RowsOK'
  BY <1>4, <1>5, RowsKept DEF OthersSpared
<1>7. \A x \in Apps, j \in Slots : x # a \/ j # i => CallOK(x, call[x][j])'
  BY <1>1, <1>4, <1>5, OthersKept
<1>8. CallOK(a, call[a][i])'
  BY <1>1, <1>2, <1>3 DEF CallOK, StepOK, RowStepOK, LeaseStepOK, RunStepOK, Cleared, Doomed,
     Unsaved, Using
<1>9. UnsavedIsOwn' /\ NoBrowserForgotten'
  BY <1>1, <1>2, <1>3, <1>4, UnsavedKept, NobodyForgotten DEF Alive
<1> QED
  BY <1>1, <1>2, <1>4, <1>6, <1>7, <1>8, <1>9, OneCallMoves

\* The calls of a worker are gone with it; what they had created and not
\* recorded is lost.
LEMMA CrashKeeps ==
    ASSUME KernelInv, NEW w \in Workers, Crash(w)
    PROVE  KernelInv'
<1>1. /\ UNCHANGED <<row, lease, browser, run>>
      /\ lost' = lost \cup {b \in Browsers : Alive(b) /\ \E a \in Apps, i \in Slots :
                   /\ Host[i] = w /\ call[a][i].step \in {"save", "delete"}
                   /\ call[a][i].browser = b}
  BY DEF Crash
<1>2. /\ call' \in [Apps -> [Slots -> Call]]
      /\ \A x \in Apps, i \in Slots : call'[x][i] = IF Host[i] = w THEN Idle ELSE call[x][i]
  BY IdleOK DEF Crash, KernelInv, WorldOK
<1>3. /\ Idle.kind = "none" /\ Idle.step = "idle" /\ ~Locks(Idle) /\ ~Unsaved(Idle)
  BY IdleOK DEF Idle
<1>4. WorldOK'
  BY <1>1, <1>2, <1>3 DEF KernelInv, WorldOK, At
<1>5. CallsOK'
  <2> SUFFICES ASSUME NEW x \in Apps, NEW i \in Slots
               PROVE  CallOK(x, call[x][i])'
    BY DEF CallsOK
  <2>1. CallOK(x, call'[x][i])
    BY <1>2, CallNow, IdleOK
  <2> QED
    BY <1>1, <2>1 DEF CallOK, StepOK, RowStepOK, LeaseStepOK, RunStepOK, LeaseCovers, Alive
<1>6. RowsOK'
  BY <1>1 DEF KernelInv, RowsOK, RowOK, LeaseCovers, Alive
<1>7. OneLock'
  BY <1>2, <1>3 DEF KernelInv, OneLock
<1>8. UnsavedIsOwn'
  <2> SUFFICES ASSUME NEW y \in Apps, NEW k \in Slots, Unsaved(call'[y][k]), NEW x \in Apps
               PROVE  /\ row'[x].session # call'[y][k].browser
                      /\ \A j \in Slots : call'[x][j].browser = call'[y][k].browser => x = y /\ j = k
    BY DEF UnsavedIsOwn
  <2>1. call'[y][k] = call[y][k]
    BY <1>2, <1>3
  <2>2. call[y][k].browser # None /\ Idle.browser = None
    BY <2>1, CallNow DEF CallOK, StepOK, Idle
  <2>3. /\ row[x].session # call[y][k].browser
        /\ \A j \in Slots : call[x][j].browser = call[y][k].browser => x = y /\ j = k
    BY <2>1 DEF KernelInv, UnsavedIsOwn
  <2> QED
    BY <1>1, <1>2, <2>1, <2>2, <2>3
<1>9. NoBrowserForgotten'
  <2> SUFFICES ASSUME NEW b \in Browsers, Alive(b)
               PROVE  \/ \E x \in Apps : row[x].session = b
                      \/ \E x \in Apps, i \in Slots :
                            call'[x][i].step \in {"save", "delete"} /\ call'[x][i].browser = b
                      \/ b \in lost'
    BY <1>1 DEF NoBrowserForgotten, Alive
  <2>1. ASSUME NEW x \in Apps, NEW i \in Slots,
               call[x][i].step \in {"save", "delete"}, call[x][i].browser = b
        PROVE  \/ b \in lost'
               \/ call'[x][i].step \in {"save", "delete"} /\ call'[x][i].browser = b
    <3>1. CASE Host[i] = w
      BY <1>1, <2>1, <3>1
    <3>2. CASE Host[i] # w
      BY <1>2, <2>1, <3>2
    <3> QED
      BY <3>1, <3>2
  <2>2. b \in lost => b \in lost'
    BY <1>1
  <2> QED
    BY <2>1, <2>2 DEF KernelInv, NoBrowserForgotten
<1> QED
  BY <1>4, <1>5, <1>6, <1>7, <1>8, <1>9 DEF KernelInv

\* Time passes for the lease as fast as for the browsers and the calls it covers,
\* and no call outlives its deadline.
LEMMA TickKeeps ==
    ASSUME KernelInv, Tick
    PROVE  KernelInv'
<1>1. /\ UNCHANGED <<row, run>>
      /\ lease' = [lease EXCEPT !.left = Less(@)]
      /\ browser' = [b \in Browsers |-> Less(browser[b])]
      /\ call' = [a \in Apps |-> [i \in Slots |-> [call[a][i] EXCEPT !.left = Less(@)]]]
      /\ lost' = {b \in lost : browser[b] > 1}
      /\ \A a \in Apps, i \in Slots : Bounded(a, i) => call[a][i].left > 0
  BY DEF Tick
<1>2. \A n \in Nat : /\ Less(n) \in Nat /\ Less(n) <= n /\ (Less(n) > 0 <=> n > 1)
                     /\ \A m \in Nat : n <= m => Less(n) <= Less(m)
                     /\ \A m \in Nat : n \in 0..m => Less(n) \in 0..m
                     /\ n > 0 => Less(n) = n - 1
  BY DEF Less
<1>3. /\ lease' \in Lease /\ lease'.owner = lease.owner /\ lease'.left = Less(lease.left)
      /\ lease.left \in Nat
  <2>1. lease \in Lease /\ lease.left \in 0..LeaseLength /\ LeaseLength \in Nat
    BY TypesNow, Times DEF WorldTyped
  <2>2. Less(lease.left) \in 0..LeaseLength /\ lease.left \in Nat
    BY <1>2, <2>1
  <2> QED
    BY <1>1, <2>1, <2>2 DEF Lease
<1>4. /\ browser' \in [Browsers -> 0..IdleLimit]
      /\ \A b \in Browsers : /\ browser'[b] = Less(browser[b]) /\ browser[b] \in Nat
                             /\ browser'[b] > 0 => (browser[b] > 1 /\ Alive(b))
  <2> SUFFICES ASSUME NEW b \in Browsers
               PROVE  /\ Less(browser[b]) \in 0..IdleLimit /\ browser[b] \in Nat
                      /\ Less(browser[b]) > 0 => (browser[b] > 1 /\ Alive(b))
    BY <1>1
  <2>1. browser[b] \in 0..IdleLimit /\ browser[b] \in Nat
    BY TypesNow, BrowsersNow
  <2> QED
    BY <1>2, <2>1, Times DEF Alive
<1>5. \A x \in Apps, i \in Slots :
          /\ call'[x][i] \in Call
          /\ call'[x][i].kind = call[x][i].kind /\ call'[x][i].step = call[x][i].step
          /\ call'[x][i].browser = call[x][i].browser
          /\ call'[x][i].left = Less(call[x][i].left) /\ call[x][i].left \in Nat
  <2> SUFFICES ASSUME NEW x \in Apps, NEW i \in Slots
               PROVE  /\ call'[x][i] \in Call
                      /\ call'[x][i].kind = call[x][i].kind /\ call'[x][i].step = call[x][i].step
                      /\ call'[x][i].browser = call[x][i].browser
                      /\ call'[x][i].left = Less(call[x][i].left) /\ call[x][i].left \in Nat
    OBVIOUS
  <2>1. call'[x][i] = [call[x][i] EXCEPT !.left = Less(@)]
    BY <1>1
  <2>2. call[x][i] \in Call /\ call[x][i].left \in 0..Deadline
    BY CallNow
  <2>3. Less(call[x][i].left) \in 0..Deadline /\ call[x][i].left \in Nat
    BY <1>2, <2>2, Times
  <2> QED
    BY <2>1, <2>2, <2>3 DEF Call
<1>6. WorldOK'
  <2>1. call' \in [Apps -> [Slots -> Call]]
    BY <1>1, <1>5
  <2>2. lost' \subseteq Browsers
    BY <1>1, TypesNow DEF WorldTyped
  <2>3. \A a \in Apps, i \in Slots :
            call[a][i].step \in {"save", "renew", "execute"} \/ At(a, i, "start", "delete")
               => call[a][i].browser # None
    BY DEF KernelInv, WorldOK
  <2>4. \A a \in Apps, i \in Slots :
            call'[a][i].step \in {"save", "renew", "execute"} \/ At(a, i, "start", "delete")'
               => call'[a][i].browser # None
    BY <1>5, <2>3 DEF At
  <2> QED
    BY <1>1, <1>3, <1>4, <2>1, <2>2, <2>4, TypesNow DEF WorldOK, WorldTyped
<1>7. CallsOK'
  <2> SUFFICES ASSUME NEW x \in Apps, NEW i \in Slots
               PROVE  CallOK(x, call[x][i])'
    BY DEF CallsOK
  <2> DEFINE c == call[x][i]
             d == call'[x][i]
  <2>1. /\ CallOK(x, c) /\ c.browser \in Browsers \cup {None} /\ c.left \in Nat
        /\ d.kind = c.kind /\ d.step = c.step /\ d.browser = c.browser /\ d.left = Less(c.left)
        /\ d.kind \in {"none", "start", "operation", "close"}
    BY <1>5, CallNow
  <2> HIDE DEF c, d
  <2>2. StepOK(d)
    BY <2>1 DEF CallOK, StepOK, Unsaved, Using
  <2>3. RowStepOK(x, call[x][i])'
    <3>1. /\ Cleared(d) => row[x].session = None
          /\ Doomed(d) => row[x].session = None \/ ~Alive(row[x].session)
          /\ Using(d) => row[x].session = d.browser \/ ~Alive(d.browser)
      BY <2>1 DEF CallOK, RowStepOK, Cleared, Doomed, Using
    <3>2. row[x].session \in Browsers \cup {None}
      BY TypesNow
    <3>3. Using(d) => d.browser \in Browsers
      BY <2>1, <2>2 DEF StepOK
    <3> QED
      BY <1>1, <1>4, <3>1, <3>2, <3>3 DEF RowStepOK, Alive, d
  <2>4. ASSUME NEW m \in Nat, NEW n \in Nat, LeaseCovers(x, m), n <= Less(m)
        PROVE  lease'.owner = x /\ lease'.left >= n
    <3>1. Less(m) <= Less(lease.left) /\ lease.owner = x
      BY <1>2, <1>3, <2>4 DEF LeaseCovers
    <3>2. Less(m) \in Nat /\ Less(lease.left) \in Nat
      BY <1>2, <1>3
    <3> QED
      BY <1>3, <2>4, <3>1, <3>2
  <2>5. ASSUME (c.kind = "start" /\ c.step = "create") \/ c.step = "execute"
        PROVE  IdleLimit + c.left \in Nat /\ IdleLimit + d.left \in Nat /\ IdleLimit + d.left <= Less(IdleLimit + c.left)
    <3>1. Bounded(x, i)
      BY <2>1, <2>5 DEF Bounded, CallOK, StepOK, c, d
    <3>2. c.left > 0
      BY <1>1, <3>1 DEF c
    <3> QED
      BY <2>1, <3>2, Times DEF Less
  <2>6. LeaseStepOK(x, call[x][i])'
    <3>1. ASSUME c.kind = "start", c.step = "create"
          PROVE  lease'.owner = x /\ lease'.left >= IdleLimit + d.left
      BY <2>1, <2>4, <2>5, <3>1 DEF CallOK, LeaseStepOK
    <3>2. ASSUME c.step = "execute", browser'[c.browser] > 0
          PROVE  lease'.owner = x /\ lease'.left >= IdleLimit + d.left
      <4>1. Alive(c.browser)
        BY <1>4, <2>1, <3>2 DEF CallOK, StepOK, Using
      <4> QED
        BY <2>1, <2>4, <2>5, <3>2, <4>1 DEF CallOK, LeaseStepOK
    <3>3. ASSUME Unsaved(c), c.step = "save", browser'[c.browser] > 0
          PROVE  lease'.owner = x /\ lease'.left >= browser'[c.browser]
      <4>1. c.browser \in Browsers
        BY <2>1, <3>3 DEF CallOK, StepOK
      <4>2. /\ Alive(c.browser) /\ browser[c.browser] \in Nat
            /\ browser'[c.browser] = Less(browser[c.browser])
        BY <1>4, <3>3, <4>1
      <4>3. LeaseCovers(x, browser[c.browser])
        BY <2>1, <3>3, <4>2 DEF CallOK, LeaseStepOK
      <4>4. browser'[c.browser] \in Nat /\ browser'[c.browser] <= Less(browser[c.browser])
        BY <1>2, <4>2
      <4> QED
        BY <2>4, <4>2, <4>3, <4>4
    <3> QED
      BY <2>1, <3>1, <3>2, <3>3 DEF LeaseStepOK, LeaseCovers, Alive, Unsaved, d
  <2>7. RunStepOK(x, call[x][i])'
    BY <1>1, <2>1 DEF CallOK, RunStepOK, d
  <2> QED
    BY <2>2, <2>3, <2>6, <2>7 DEF CallOK, d
<1>8. RowsOK'
  <2> SUFFICES ASSUME NEW x \in Apps
               PROVE  RowOK(x)'
    BY DEF RowsOK
  <2>1. RowOK(x) /\ row[x].session \in Browsers \cup {None}
    BY TypesNow DEF KernelInv, RowsOK
  <2>2. ASSUME row[x].session # None, browser'[row[x].session] > 0
        PROVE  lease'.owner = x /\ lease'.left >= browser'[row[x].session]
    <3>1. /\ row[x].session \in Browsers /\ Alive(row[x].session) /\ browser[row[x].session] \in Nat
          /\ browser'[row[x].session] = Less(browser[row[x].session])
      BY <1>4, <2>1, <2>2
    <3>2. lease.owner = x /\ lease.left >= browser[row[x].session]
      BY <2>1, <2>2, <3>1 DEF RowOK, LeaseCovers
    <3> QED
      BY <1>2, <1>3, <3>1, <3>2
  <2> QED
    BY <1>1, <2>1, <2>2 DEF RowOK, LeaseCovers, Alive
<1>9. OneLock'
  BY <1>5 DEF KernelInv, OneLock, Locks
<1>10. UnsavedIsOwn'
  <2>1. \A x \in Apps, i \in Slots : Unsaved(call'[x][i]) => Unsaved(call[x][i])
    BY <1>5 DEF Unsaved
  <2> QED
    BY <1>1, <1>5, <2>1 DEF KernelInv, UnsavedIsOwn
<1>11. NoBrowserForgotten'
  <2> SUFFICES ASSUME NEW b \in Browsers, browser'[b] > 0
               PROVE  \/ \E x \in Apps : row[x].session = b
                      \/ \E x \in Apps, i \in Slots :
                            call'[x][i].step \in {"save", "delete"} /\ call'[x][i].browser = b
                      \/ b \in lost'
    BY <1>1 DEF NoBrowserForgotten, Alive
  <2>1. Alive(b) /\ browser[b] > 1
    BY <1>4
  <2>2. \/ \E x \in Apps : row[x].session = b
        \/ \E x \in Apps, i \in Slots :
              call[x][i].step \in {"save", "delete"} /\ call[x][i].browser = b
        \/ b \in lost
    BY <2>1 DEF KernelInv, NoBrowserForgotten
  <2> QED
    BY <1>1, <1>5, <2>1, <2>2
<1> QED
  BY <1>6, <1>7, <1>8, <1>9, <1>10, <1>11 DEF KernelInv

-----------------------------------------------------------------------------
(* The Kernel client's invariant, and the exclusive writing it implements. *)

LEMMA InitiallyKernelInv ==
    ASSUME Init
    PROVE  KernelInv
<1>1. /\ \A x \in Apps : /\ row[x].session = None /\ row[x] \in Row /\ run[x] = "closed"
                         /\ \A i \in Slots : call[x][i] = Idle
      /\ \A b \in Browsers : ~Alive(b)
  BY DEF Init, Row, Alive
<1>2. WorldOK
  <2>1. 0 \in 0..IdleLimit /\ 0 \in 0..LeaseLength
    BY Times
  <2>2. Idle.step = "idle"
    BY DEF Idle
  <2>3. \A a \in Apps, i \in Slots :
            call[a][i].step \in {"save", "renew", "execute"} \/ At(a, i, "start", "delete")
               => call[a][i].browser # None
    BY <1>1, <2>2 DEF At
  <2> QED
    BY <2>1, <2>3, IdleOK DEF Init, WorldOK, Row, Lease
<1>3. CallsOK
  BY <1>1, IdleOK DEF CallsOK
<1>4. RowsOK
  BY <1>1 DEF RowsOK, RowOK
<1>5. OneLock /\ UnsavedIsOwn
  BY <1>1, IdleOK DEF OneLock, UnsavedIsOwn
<1>6. NoBrowserForgotten
  BY <1>1 DEF NoBrowserForgotten
<1> QED
  BY <1>2, <1>3, <1>4, <1>5, <1>6 DEF KernelInv

LEMMA StepKeepsKernelInv ==
    ASSUME KernelInv, Colocated', [Next]_vars
    PROVE  KernelInv'
<1>1. CASE UNCHANGED vars
  BY <1>1 DEF vars, KernelInv, WorldOK, At, CallsOK, CallOK, StepOK, RowStepOK, LeaseStepOK, RunStepOK,
     LeaseCovers, Alive, RowsOK, RowOK, OneLock, UnsavedIsOwn, NoBrowserForgotten
<1>2. ASSUME NEW w \in Workers, Crash(w) \/ \E a \in Apps : BeginRun(a, w)
      PROVE  KernelInv'
  BY <1>2, BeginRunKeeps, CrashKeeps
<1>3. ASSUME NEW a \in Apps, NEW i \in Slots,
             CallStart(a, i) \/ CallOperation(a, i) \/ CallClose(a, i)
      PROVE  KernelInv'
  BY <1>3, CallStartKeeps, CallOperationKeeps, CallCloseKeeps
<1>4. ASSUME NEW a \in Apps, NEW i \in Slots, StartStep(a, i)
      PROVE  KernelInv'
  BY <1>4, ConnectKeeps, ClearExpiredKeeps, AcquireProfileKeeps, CreateBrowserKeeps, CreateFailsKeeps,
     SaveSessionKeeps, SaveFailsKeeps, DeleteUnsavedKeeps, ScrubRowKeeps, ReleaseUnusedKeeps
     DEF StartStep
<1>5. ASSUME NEW a \in Apps, NEW i \in Slots, OperationStep(a, i)
      PROVE  KernelInv'
  BY <1>5, LoadSessionKeeps, RenewLeaseKeeps, ExecuteKeeps, FailKeeps DEF OperationStep
<1>6. ASSUME NEW a \in Apps, NEW i \in Slots, CloseStep(a, i)
      PROVE  KernelInv'
  BY <1>6, DeleteBrowserKeeps, ClearClosedKeeps, ReleaseProfileKeeps, CloseFailsKeeps DEF CloseStep
<1> QED
  BY <1>1, <1>2, <1>3, <1>4, <1>5, <1>6, TickKeeps DEF Next, RunStep

\* The invariant of every behaviour of the Kernel client in which the starts
\* and closes of an application in flight together are on one worker.
THEOREM KernelInvariant == Spec /\ []Colocated => []KernelInv
<1>1. Init => KernelInv
  BY InitiallyKernelInv
<1>2. KernelInv /\ Colocated' /\ [Next]_vars => KernelInv'
  BY StepKeepsKernelInv
<1> QED
  BY <1>1, <1>2, PTL DEF Spec

\* A lease that has not run out passes to nobody but through its release.
LEMMA LeaseStaysOrIsReleased ==
    ASSUME KernelInv, [Next]_vars, lease.left > 0, lease.owner # None
    PROVE  lease'.owner \in {lease.owner, None}
<1>0. lease \in Lease /\ lease.left # 0
  BY TypesNow DEF WorldTyped
<1>1. \A a \in Apps : AcquireLease(a) \/ ReleaseLease(a) => lease'.owner \in {lease.owner, None}
  BY <1>0 DEF AcquireLease, Acquirable, ReleaseLease
<1>2. CASE UNCHANGED lease
  BY <1>2
<1>3. CASE Tick
  BY <1>0, <1>3 DEF Tick, Lease
<1>4. ASSUME NEW a \in Apps, NEW i \in Slots, StartStep(a, i)
      PROVE  UNCHANGED lease \/ AcquireLease(a) \/ ReleaseLease(a)
  BY <1>4 DEF StartStep, Connect, ClearExpired, AcquireProfile, CreateBrowser, CreateFails,
     SaveSession, SaveFails, DeleteUnsaved, ScrubRow, ReleaseUnused
<1>5. ASSUME NEW a \in Apps, NEW i \in Slots, OperationStep(a, i)
      PROVE  UNCHANGED lease \/ AcquireLease(a)
  BY <1>5 DEF OperationStep, LoadSession, RenewLease, Execute, Fail
<1>6. ASSUME NEW a \in Apps, NEW i \in Slots, CloseStep(a, i)
      PROVE  UNCHANGED lease \/ ReleaseLease(a)
  BY <1>6 DEF CloseStep, DeleteBrowser, ClearClosed, ReleaseProfile, CloseFails
<1> QED
  BY <1>1, <1>2, <1>3, <1>4, <1>5, <1>6 DEF Next, RunStep, vars, BeginRun, Crash, CallStart, CallOperation,
     CallClose

WritersOwnLease ==
    /\ Writers \subseteq Apps
    /\ \A a \in Writers : lease.owner = a /\ lease.left > 0

LEMMA WriterOwnsLease == KernelInv => WritersOwnLease
<1> SUFFICES ASSUME KernelInv, NEW a \in Writers
             PROVE  lease.owner = a /\ lease.left > 0
  BY DEF Writers, WritersOwnLease
<1>1. a \in Apps /\ row[a].session \in Browsers /\ Alive(row[a].session)
  BY TypesNow DEF Writers
<1>2. lease.owner = a /\ lease.left >= browser[row[a].session]
  BY <1>1, KernelAssumption DEF KernelInv, RowsOK, RowOK, LeaseCovers
<1>3. browser[row[a].session] \in Nat /\ lease.left \in Nat
  BY <1>1, BrowsersNow, TypesNow, Times
<1> QED
  BY <1>1, <1>2, <1>3 DEF Alive

\* A step of the client is a step of exclusive writing.
LEMMA WritersTakeTurns ==
    ASSUME WritersOwnLease, WritersOwnLease',
           lease.left > 0 /\ lease.owner # None => lease'.owner \in {lease.owner, None}
    PROVE  [Exclusive!Next]_Writers
<1> SUFFICES ASSUME Writers' # Writers
             PROVE  Exclusive!Next
  OBVIOUS
<1>1. /\ Writers \subseteq Apps /\ \A a \in Writers : lease.owner = a /\ lease.left > 0
      /\ Writers' \subseteq Apps /\ \A a \in Writers' : lease'.owner = a
  BY DEF WritersOwnLease
<1>2. CASE Writers = {}
  <2>1. PICK a \in Writers' : TRUE
    BY <1>2
  <2>2. Writers' = {a} /\ a \in Apps
    BY <1>1, <2>1
  <2> QED
    BY <1>2, <2>2 DEF Exclusive!Next, Exclusive!Enter
<1>3. CASE Writers # {}
  <2>1. PICK a \in Writers : TRUE
    BY <1>3
  <2>2. Writers = {a} /\ a \in Apps /\ a # None
    BY <1>1, <2>1, KernelAssumption
  <2>3. lease'.owner \in {a, None}
    BY <1>1, <2>1, <2>2
  <2>4. Writers' \subseteq {a}
    BY <1>1, <2>3, KernelAssumption
  <2>5. Writers' = {}
    BY <2>2, <2>4
  <2> QED
    BY <2>2, <2>5 DEF Exclusive!Next, Exclusive!Leave
<1> QED
  BY <1>2, <1>3

-----------------------------------------------------------------------------
(* The client that drives one of the two providers.  The Rod client's      *)
(* theorems are about an instance of their own module; its definitions are *)
(* those of the instance the client names.                                 *)

RodP == INSTANCE RodBrowserProofs

LEMMA RodStep == [Rod!Next]_rodVars => [RodP!Next]_RodP!vars
BY DEF rodVars, RodP!vars, Rod!Next, RodP!Next, Rod!StartExisting, RodP!StartExisting,
   Rod!StartFresh, RodP!StartFresh, Rod!Close, RodP!Close, Rod!CompleteReplay, RodP!CompleteReplay,
   Rod!Crash, RodP!Crash, Rod!Fetch, RodP!Fetch, Rod!Check, RodP!Check, Rod!Act, RodP!Act,
   Rod!ChromiumDies, RodP!ChromiumDies, Rod!Navigate, RodP!Navigate, Rod!Screenshot, RodP!Screenshot,
   Rod!Click, RodP!Click, Rod!Type, RodP!Type, Rod!ClickSubmit, RodP!ClickSubmit,
   Rod!UploadFile, RodP!UploadFile, Rod!NoEffect, RodP!NoEffect, Rod!Acting, RodP!Acting,
   Rod!Usable, RodP!Usable, Rod!Update, RodP!Update, Rod!Turned, RodP!Turned,
   Rod!Tagged, RodP!Tagged, Rod!Relaunch, RodP!Relaunch,
   Rod!RelaunchFails, RodP!RelaunchFails, Rod!SaveRelaunchedFails, RodP!SaveRelaunchedFails,
   Rod!Healthy, RodP!Healthy, Rod!Save, RodP!Save, Rod!ClearActive, RodP!ClearActive,
   Rod!FreshId, RodP!FreshId, Rod!Unreachable, RodP!Unreachable, Rod!Done, RodP!Done,
   Rod!NoOperation, RodP!NoOperation, Rod!Opened, RodP!Opened, Rod!Gone, RodP!Gone, Rod!Object, RodP!Object

ClientInv == KernelInv /\ home \in [Apps -> Workers] /\ RodP!RodInv

\* A step of the client is a step of one provider's client and a stutter of the
\* other's.
LEMMA ClientStep ==
    ASSUME [ClientNext]_clientVars
    PROVE  [Next]_vars /\ [Rod!Next]_rodVars
BY DEF ClientNext, clientVars

\* The session's worker is a worker.
LEMMA HomeKept == home \in [Apps -> Workers] /\ [Next]_vars => home' \in [Apps -> Workers]
BY DEF Next, vars, BeginRun

LEMMA InitiallyRodP == ClientInit => RodP!RodInv
<1> SUFFICES ASSUME ClientInit PROVE RodP!RodInv
  OBVIOUS
<1>1. RodP!Init
  BY DEF ClientInit, Rod!Init, RodP!Init, Rod!Gone, RodP!Gone, Rod!NoOperation, RodP!NoOperation
<1> QED
  BY <1>1, RodP!InitiallyRodInv

LEMMA StepKeepsRodP == RodP!RodInv /\ [ClientNext]_clientVars => RodP!RodInv'
<1> SUFFICES ASSUME RodP!RodInv, [ClientNext]_clientVars PROVE RodP!RodInv'
  OBVIOUS
<1>1. RodP!NoneIsNoObject /\ [RodP!Next]_RodP!vars
  BY ClientAssumption, ClientStep, RodStep DEF RodP!NoneIsNoObject
<1> QED
  BY <1>1, RodP!StepKeepsRodInv

\* Whatever the Kernel half does, the Rod half keeps its invariant.
LEMMA RodHalf == ClientSpec => []RodP!RodInv
BY InitiallyRodP, StepKeepsRodP, PTL DEF ClientSpec

\* The Kernel client's invariant and the type of what it keeps beside it.
KernelHalf == KernelInv /\ home \in [Apps -> Workers]

LEMMA StepKeepsKernelHalf ==
    KernelHalf /\ Colocated' /\ [ClientNext]_clientVars => KernelHalf'
BY ClientStep, StepKeepsKernelInv, HomeKept DEF KernelHalf

\* Where starts and closes share a worker, the Kernel half keeps its invariant
\* whatever the Rod half does.
LEMMA KernelHalfHolds == ClientSpec /\ []Colocated => []KernelHalf
<1>1. ClientInit => KernelHalf
  BY InitiallyKernelInv DEF ClientInit, Init, KernelHalf
<1> QED
  BY <1>1, StepKeepsKernelHalf, PTL DEF ClientSpec

\* The inductive invariant of the worker's browser client, whichever provider
\* it was configured with.
THEOREM ClientInvariant == ClientSpec /\ []Colocated => []ClientInv
<1>1. KernelHalf /\ RodP!RodInv => ClientInv
  BY DEF KernelHalf, ClientInv
<1> QED
  BY <1>1, KernelHalfHolds, RodHalf, PTL

\* The client is, of the Kernel rows and browsers, the Kernel client, and, of
\* the Rod session objects, the Rod client.
THEOREM ClientIsBoth == ClientSpec => Spec /\ Rod!Spec
<1>1. ClientInit => Init /\ Rod!Init
  BY DEF ClientInit
<1>2. [ClientNext]_clientVars => [Next]_vars /\ [Rod!Next]_Rod!vars
  BY ClientStep DEF rodVars, Rod!vars
<1> QED
  BY <1>1, <1>2, PTL DEF ClientSpec, Spec, Rod!Spec

\* Types of the rows, leases, browsers, session objects and calls in flight
\* (src/browser/kernel/client.go, src/browser/rod/client.go).
THEOREM ClientTypes == ClientSpec /\ []Colocated => []ClientTypeOK
<1>1. ClientInv => ClientTypeOK
  BY DEF ClientInv, KernelInv, RodP!RodInv, ClientTypeOK, TypeOK, Rod!TypeOK, RodP!TypeOK,
     Rod!Object, RodP!Object
<1> QED
  BY <1>1, ClientInvariant, PTL

\* Where starts and closes of an application share a worker, the profile lease
\* outlasts every recorded browser that lives, whatever the idle limit and
\* however calls, closes, crashes and time interleave.
THEOREM LeaseOutlastsBrowser == ClientSpec /\ []Colocated => []WriterHoldsLease
<1>1. KernelInv => WriterHoldsLease
  BY DEF KernelInv, RowsOK, RowOK, LeaseCovers, WriterHoldsLease
<1> QED
  BY <1>1, ClientInvariant, PTL DEF ClientInv

\* There, a reported close leaves no recorded browser behind
\* (kernel.CloseBrowser).
THEOREM ClosesAreClean == ClientSpec /\ []Colocated => []CleanClose
<1>1. KernelInv => CleanClose
  BY DEF KernelInv, RowsOK, RowOK, CleanClose
<1> QED
  BY <1>1, ClientInvariant, PTL DEF ClientInv

\* There, no path of a start or close forgets a browser it could still delete.
THEOREM BrowsersAreOwned == ClientSpec /\ []Colocated => []NoBrowserForgotten
BY ClientInvariant, PTL DEF ClientInv, KernelInv

\* A close reaches the only Chromium that runs: no operation that held a closed
\* session object has brought its browser back (rod.ensureHealthy).
THEOREM ClosedChromiumStaysClosed == ClientSpec => []NoChromiumSurvivesClose
<1>1. RodP!RodInv => NoChromiumSurvivesClose
  BY DEF RodP!RodInv, RodP!OpenIsHandle, NoChromiumSurvivesClose, Rod!NoChromiumSurvivesClose
<1> QED
  BY <1>1, RodHalf, PTL

\* The row names the incarnation an open handle drives, across relaunches.
THEOREM RowFollowsRelaunch == ClientSpec => []RowNamesIncarnation
<1>1. RodP!RodInv => RowNamesIncarnation
  BY DEF RodP!RodInv, RodP!RowNamesIncarnation, RowNamesIncarnation, Rod!RowNamesIncarnation
<1> QED
  BY <1>1, RodHalf, PTL

\* An element index never reaches an element of another tab or incarnation,
\* unless the last navigation moved the page and failed (rod.Navigate).
THEOREM TagsStayInTab == ClientSpec => []TagsOfThisTab
<1>1. RodP!RodInv => TagsOfThisTab
  BY DEF RodP!RodInv, RodP!TagsOfThisTab, TagsOfThisTab, Rod!TagsOfThisTab
<1> QED
  BY <1>1, RodHalf, PTL

\* The lease refines exclusive writing, where starts and closes of an
\* application share a worker: of one user's applications at most one has a
\* browser writing to the profile, and it is gone before another's is recorded.
THEOREM LeaseImplementsExclusion == ClientSpec /\ []Colocated => OneWriterAtATime
<1>1. ClientInit => Exclusive!Init
  <2> SUFFICES ASSUME ClientInit PROVE Writers = {}
    BY DEF Exclusive!Init
  <2> QED
    BY DEF ClientInit, Init, Writers
<1>2. KernelInv /\ KernelInv' /\ [ClientNext]_clientVars => [Exclusive!Next]_Writers
  <2> SUFFICES ASSUME KernelInv, KernelInv', [ClientNext]_clientVars
               PROVE  [Exclusive!Next]_Writers
    OBVIOUS
  <2>1. WritersOwnLease
    BY WriterOwnsLease
  <2>2. WritersOwnLease'
    BY WriterOwnsLease, PTL
  <2>3. lease.left > 0 /\ lease.owner # None => lease'.owner \in {lease.owner, None}
    BY ClientStep, LeaseStaysOrIsReleased
  <2> QED
    BY <2>1, <2>2, <2>3, WritersTakeTurns
<1> QED
  BY <1>1, <1>2, ClientInvariant, PTL DEF ClientInv, ClientSpec, OneWriterAtATime, Exclusive!Spec
=============================================================================
