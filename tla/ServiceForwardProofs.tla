------------------------ MODULE ServiceForwardProofs ------------------------
(***************************************************************************)
(* Theorems about ServiceForward, for any services, hosts files and bounds *)
(* of the informer: what is forwarded when the events have been handled,   *)
(* that nothing is after a clean exit, when the server's host is found,    *)
(* and what the edits of the hosts file leave in it.  What they rest on:   *)
(* the history of the store in the notes (InformerProofs), of which the    *)
(* handlers have made what they had to up to the first note (MadeInv);     *)
(* that the registry takes nothing any more once it is done (StopInv);     *)
(* that lines come and go with their forwards (HostsInv); and, for the     *)
(* loops over the lines and hosts, what their rounds leave (Rest,          *)
(* Cleaned, Moved).                                                        *)
(***************************************************************************)
EXTENDS ServiceForward, InformerProofs, FiniteSetTheorems, WellFoundedInduction

ForwardTypes ==
    /\ listening
    /\ fwd \in Version /\ adding \in Version
    /\ adding # 0 => fwd = 0
    /\ listed \subseteq {"src", "dst"}

\* What is forwarded, or will be when the update under way is finished.
Made == IF adding # 0 THEN Wanted(adding) ELSE fwd

\* The handlers have made what they had to of the notes they took.
MadeInv == ~killed => Made = Wanted(Handled) \/ stale

\* The registry is done only after the kill signal and has nothing then, and
\* "Clean exit" is reached only after that.
StopInv ==
    /\ regDone => killed /\ fwd = 0 /\ listed = {}
    /\ clean => regDone

SafetyInv ==
    /\ InformerInv
    /\ ForwardTypes
    /\ MadeInv
    /\ StopInv

\* The selector is empty only for a kubetunnel service that has none.
LEMMA SkippedWhen ==
    ASSUME NEW v
    PROVE  Skipped(v) <=> service.tunnel /\ service.selector[v] = "none"
BY DEF Skipped, PodSelector

-----------------------------------------------------------------------------
\* Nothing is forwarded, and there is nothing to forward yet.
LEMMA InitSafe == Init => SafetyInv
<1> SUFFICES ASSUME Init PROVE SafetyInv
    OBVIOUS
<1> USE BoundsAssumption DEF Init, InformerInit
<1>1. linked \in BOOLEAN /\ synced \in BOOLEAN /\ listening \in BOOLEAN
    OBVIOUS
<1>2. wire \in Seq(Version) /\ notes \in Seq(Note) /\ Len(notes) <= MaxNotes
    OBVIOUS
<1>3. object \in Version /\ top \in Version /\ store \in Version /\ fwd \in Version /\ adding \in Version
    BY DEF Version
<1>4. InformerInv
    BY <1>1, <1>2, <1>3 DEF InformerInv, InformerTypeOK, LinkInv, NotesInv
<1>5. ForwardTypes /\ StopInv
    BY <1>3 DEF ForwardTypes, StopInv
<1>6. MadeInv
    BY DEF MadeInv, Made, Handled, Wanted
<1> QED
    BY <1>4, <1>5, <1>6 DEF SafetyInv

\* What the handlers do with the informer's notes, when they run.
LEMMA HandlerNotes ==
    ASSUME SafetyInv, notes # <<>>, Take
    PROVE  /\ InformerInv' /\ listening' = listening
           /\ Head(notes) = notes[1] /\ notes[1].new \in Version
           /\ notes[1].new = 0 <=> notes[1].type \in {"deleted", "tombstone"}
           /\ notes[1].type = "added" => notes[1].old = 0
           /\ Handled = notes[1].old /\ Handled' = notes[1].new
<1>1. InformerInv' /\ Handled' = notes[1].new
    BY TakeStep, HandledTaken DEF SafetyInv
<1>2. notes \in Seq(Note) /\ \A i \in 1 .. Len(notes) : NoteInv(notes[i])
    BY DEF SafetyInv, InformerInv, InformerTypeOK, NotesInv
<1>3. Head(notes) = notes[1] /\ notes[1] \in Note /\ NoteInv(notes[1])
    BY <1>2, OneLess
<1> QED
    BY <1>1, <1>3 DEF Take, Handled, Note, NoteInv

\* AddFunc: the service was not there before, so that nothing is forwarded
\* unless its deletion was dropped.
LEMMA AddStep == SafetyInv /\ AddFunc => SafetyInv'
<1> SUFFICES ASSUME SafetyInv, AddFunc PROVE SafetyInv'
    OBVIOUS
<1>1. notes # <<>> /\ Take /\ Head(notes).type = "added"
    BY DEF AddFunc, NextIs
<1>2. /\ AddServiceHandler(notes[1].new) /\ adding = 0
      /\ UNCHANGED <<adding, stale, service, killed, regDone, clean, listed>>
    BY <1>1, HandlerNotes DEF AddFunc, Watching, handlerUnchanged, stopVars, hostVars
<1>3. ForwardTypes'
    BY <1>1, <1>2, HandlerNotes DEF SafetyInv, ForwardTypes, AddServiceHandler
<1>4. StopInv'
    BY <1>2 DEF SafetyInv, StopInv, AddServiceHandler
<1>5. MadeInv'
    <2> SUFFICES ASSUME ~killed', ~stale' PROVE Made' = Wanted(Handled)'
        BY DEF MadeInv
    <2>1. Handled = 0 /\ Handled' = notes[1].new /\ notes[1].new # 0
        BY <1>1, HandlerNotes
    <2>2. fwd = 0
        BY <1>2, <2>1 DEF SafetyInv, MadeInv, Made, Wanted
    <2>3. fwd' = IF Skipped(notes[1].new) THEN 0 ELSE notes[1].new
        BY <1>2, <2>2 DEF AddServiceHandler
    <2> QED
        BY <1>2, <2>1, <2>3 DEF Made, Wanted, Skipped, PodSelector
<1> QED
    BY <1>1, <1>3, <1>4, <1>5, HandlerNotes DEF SafetyInv

\* DeleteFunc: the forward goes, or stays as a stale one.
LEMMA DeleteStep == SafetyInv /\ DeleteFunc => SafetyInv'
<1> SUFFICES ASSUME SafetyInv, DeleteFunc PROVE SafetyInv'
    OBVIOUS
<1>1. notes # <<>> /\ Take /\ Head(notes).type \in {"deleted", "tombstone"}
    BY DEF DeleteFunc, NextIs
<1>2. /\ adding = 0 /\ UNCHANGED <<adding, service, killed, regDone, clean>>
      /\ \/ fwd' = 0
         \/ fwd' = fwd /\ stale' = (stale \/ fwd # 0)
      /\ listed' \subseteq listed
    BY DEF DeleteFunc, DeleteServiceHandler, DropLines, Watching, handlerUnchanged, stopVars,
           hostVars
<1>3. ForwardTypes' /\ StopInv'
    BY <1>1, <1>2, HandlerNotes, BoundsAssumption
    DEF SafetyInv, ForwardTypes, StopInv, Version
<1>4. MadeInv'
    <2>1. Handled' = 0 /\ Wanted(Handled)' = 0
        BY <1>1, HandlerNotes DEF Wanted
    <2>2. Made' = fwd'
        BY <1>2 DEF Made
    <2>3. fwd' = 0 \/ stale'
        BY <1>2
    <2> QED
        BY <2>1, <2>2, <2>3 DEF MadeInv
<1> QED
    BY <1>1, <1>3, <1>4, HandlerNotes DEF SafetyInv

\* UpdateFunc deletes, and what it adds is the version the note has.
LEMMA UpdateStep == SafetyInv /\ UpdateFunc => SafetyInv'
<1> SUFFICES ASSUME SafetyInv, UpdateFunc PROVE SafetyInv'
    OBVIOUS
<1>1. notes # <<>> /\ Take /\ Head(notes).type = "updated"
    BY DEF UpdateFunc, NextIs
<1>2. /\ fwd' = 0 /\ adding' = notes[1].new /\ notes[1].new # 0
      /\ UNCHANGED <<service, killed, regDone, clean>> /\ listed' \subseteq listed
    BY <1>1, HandlerNotes
    DEF UpdateFunc, DeleteServiceHandler, DropLines, handlerUnchanged, stopVars
<1>3. ForwardTypes' /\ StopInv'
    BY <1>1, <1>2, HandlerNotes, BoundsAssumption
    DEF SafetyInv, ForwardTypes, StopInv, Version
<1>4. MadeInv'
    BY <1>1, <1>2, HandlerNotes DEF MadeInv, Made
<1> QED
    BY <1>1, <1>3, <1>4, HandlerNotes DEF SafetyInv

\* FinishUpdate makes what was still to be made.
LEMMA FinishStep == SafetyInv /\ FinishUpdate => SafetyInv'
<1> SUFFICES ASSUME SafetyInv, FinishUpdate PROVE SafetyInv'
    OBVIOUS
<1>1. /\ adding # 0 /\ fwd = 0 /\ adding' = 0 /\ AddServiceHandler(adding)
      /\ UNCHANGED <<informerVars, stale, service, killed, regDone, clean, listed>>
    BY DEF FinishUpdate, handlerUnchanged, stopVars, hostVars, SafetyInv, ForwardTypes
<1>2. InformerInv'
    BY <1>1 DEF SafetyInv, InformerInv, InformerTypeOK, LinkInv, NotesInv, NoteInv, informerVars
<1>3. ForwardTypes' /\ StopInv'
    BY <1>1, BoundsAssumption
    DEF SafetyInv, ForwardTypes, StopInv, AddServiceHandler, Version, informerVars
<1>4. MadeInv'
    <2> SUFFICES ASSUME ~killed', ~stale' PROVE Made' = Wanted(Handled)'
        BY DEF MadeInv
    <2>1. Made' = fwd' /\ fwd' = IF Skipped(adding) THEN 0 ELSE adding
        BY <1>1 DEF Made, AddServiceHandler
    <2>2. Handled' = Handled /\ Wanted(Handled)' = Wanted(Handled)
        BY <1>1 DEF Handled, Wanted, Skipped, PodSelector, informerVars
    <2>3. Wanted(Handled) = Wanted(adding)
        BY <1>1 DEF SafetyInv, MadeInv, Made
    <2> QED
        BY <1>1, <2>1, <2>2, <2>3, SkippedWhen DEF Wanted
<1> QED
    BY <1>2, <1>3, <1>4 DEF SafetyInv

\* Steps of the informer, while they are taken at all.
LEMMA InformingStep == SafetyInv /\ Informing => SafetyInv'
<1> SUFFICES ASSUME SafetyInv, Informing PROVE SafetyInv'
    OBVIOUS
<1>1. InformerNext /\ UNCHANGED <<service, fwd, adding, stale, killed, regDone, clean, listed>>
    BY DEF Informing, InformerNext, fwdVars, stopVars, hostVars
<1>2. InformerInv' /\ Handled' = Handled /\ listening'
    <2>1. listening' = listening
        BY <1>1 DEF InformerNext, ServerChange, Receive, Gap, Relist
    <2> QED
        BY <1>1, <2>1, ServerStep, ReceiveStep, GapStep, RelistStep, HandledKept
        DEF InformerNext, SafetyInv, ForwardTypes
<1>3. ForwardTypes' /\ StopInv'
    BY <1>1, <1>2 DEF SafetyInv, ForwardTypes, StopInv
<1>4. MadeInv'
    BY <1>1, <1>2 DEF SafetyInv, MadeInv, Made, Wanted, Skipped, PodSelector
<1> QED
    BY <1>2, <1>3, <1>4 DEF SafetyInv

\* Steps of the rest of the program touch what is forwarded only to drop it,
\* once the kill signal has been given, and write no line once it is dropped.
LEMMA QuietStep ==
    ASSUME SafetyInv,
           UNCHANGED <<informerVars, service, adding>>,
           killed => killed', regDone => regDone',
           regDone' => regDone \/ (killed' /\ fwd' = 0 /\ listed' = {}),
           listed' \subseteq {"src", "dst"}, regDone => listed' \subseteq listed,
           clean' => clean \/ regDone',
           UNCHANGED <<fwd, stale>> \/ (killed' /\ fwd' = 0)
    PROVE  SafetyInv'
<1>1. InformerInv'
    BY DEF SafetyInv, InformerInv, InformerTypeOK, LinkInv, NotesInv, NoteInv, informerVars
<1>2. ForwardTypes'
    BY BoundsAssumption DEF SafetyInv, ForwardTypes, Version, informerVars
<1>3. StopInv'
    BY DEF SafetyInv, StopInv
<1>4. MadeInv'
    <2> SUFFICES ASSUME ~killed' PROVE Made' = Wanted(Handled)' \/ stale'
        BY DEF MadeInv
    <2>1. Made' = Made /\ stale' = stale
        BY DEF Made, Wanted, Skipped, PodSelector
    <2>2. Wanted(Handled)' = Wanted(Handled)
        BY DEF Handled, Wanted, Skipped, PodSelector, informerVars
    <2> QED
        BY <2>1, <2>2 DEF SafetyInv, MadeInv
<1> QED
    BY <1>1, <1>2, <1>3, <1>4 DEF SafetyInv

\* Every step keeps the invariant.
LEMMA SafetyStep == SafetyInv /\ [Next]_vars => SafetyInv'
<1> SUFFICES ASSUME SafetyInv, [Next]_vars PROVE SafetyInv'
    OBVIOUS
<1> USE DEF fwdVars, stopVars, hostVars, toldVars, stopUnchanged, waitUnchanged
<1>0. listed \subseteq {"src", "dst"}
    BY DEF SafetyInv, ForwardTypes
<1>1. CASE Start
    BY <1>0, <1>1, QuietStep DEF Start
<1>2. CASE Kill
    BY <1>0, <1>2, QuietStep DEF Kill
<1>3. CASE RegistryShutdown
    <2>1. listed' = {}
        BY <1>3 DEF RegistryDone, RegistryShutdown, DropLines, SafetyInv, ForwardTypes
    <2> QED
        BY <1>3, <2>1, QuietStep DEF RegistryDone, RegistryShutdown
<1>4. CASE WatchReturns
    BY <1>0, <1>4, QuietStep DEF WatchReturns
<1>5. CASE CleanExit
    BY <1>0, <1>5, QuietStep DEF CleanExit
<1>6. CASE ProcessExit
    BY <1>0, <1>6, QuietStep DEF ProcessExit
<1>7. CASE ServerUp \/ WaitInterrupted \/ ChangeHost \/ ChangeHostPanics
    <2>1. waitUnchanged
        BY <1>7 DEF ServerUp, WaitInterrupted, ChangeHost, ChangeHostPanics
    <2>2. UNCHANGED <<informerVars, service, adding, fwd, stale, killed, regDone, clean, listed>>
        BY <2>1
    <2> QED
        BY <1>0, <2>2, QuietStep
<1>8. CASE Pods
    <2>1. PICK s \in {"src", "dst"} : ListForward(s) \/ UnlistForward(s)
        BY <1>8 DEF Pods
    <2>2. /\ UNCHANGED <<informerVars, service, adding, fwd, stale, killed, regDone, clean>>
          /\ listed' \subseteq {"src", "dst"} /\ (regDone => listed' \subseteq listed)
        BY <2>1 DEF ListForward, UnlistForward, DropLines, SafetyInv, ForwardTypes
    <2> QED
        BY <2>2, QuietStep
<1>9. CASE UNCHANGED vars
    BY <1>0, <1>9, QuietStep DEF vars
<1> QED
    BY <1>1, <1>2, <1>3, <1>4, <1>5, <1>6, <1>7, <1>8, <1>9,
       AddStep, DeleteStep, UpdateStep, FinishStep, InformingStep
    DEF Next, Handlers, Shutdown, Finished

-----------------------------------------------------------------------------
(* Loops and folds: rounds instead of recursion                            *)

\* A set of numbers that is not empty has a least one.
LEMMA LeastNat ==
    ASSUME NEW S \in SUBSET Nat, S # {}
    PROVE  Min(S) \in S /\ \A x \in S : Min(S) <= x
<1>1. PICK x \in S : \A y \in S : ~(<<y, x>> \in OpToRel(<, Nat))
    BY NatLessThanWellFounded, WFMin
<1>2. \A y \in S : ~(y < x)
    BY <1>1 DEF OpToRel
<1>3. \A y \in S : x <= y
    BY <1>2
<1> QED
    BY <1>3 DEF Min

\* Induction up to N, over a set instead of a predicate.
LEMMA UpTo ==
    ASSUME NEW N \in Nat, NEW T, 0 \in T, \A k \in 1 .. N : k - 1 \in T => k \in T
    PROVE  0 .. N \subseteq T
<1> SUFFICES ASSUME (0 .. N) \ T # {} PROVE FALSE
    OBVIOUS
<1> DEFINE k == Min((0 .. N) \ T)
<1>1. k \in (0 .. N) \ T /\ \A x \in (0 .. N) \ T : k <= x
    BY LeastNat
<1> HIDE DEF k
<1>2. k \in 1 .. N /\ k - 1 \in (0 .. N) /\ ~(k <= k - 1)
    BY <1>1
<1> QED
    BY <1>1, <1>2

\* The runs of a loop of N rounds on X, G[k] being round k.
Walks(X, start, N, G) ==
    {w \in [0 .. N -> X] : w = [k \in 0 .. N |-> IF k = 0 THEN start ELSE G[k][w[k - 1]]]}

\* A loop whose rounds are functions on X has a run: what the recursive
\* function in Walk stands for is then known round by round.
LEMMA WalkExists ==
    ASSUME NEW X, NEW start \in X, NEW N \in Nat, NEW G \in [1 .. N -> [X -> X]]
    PROVE  Walks(X, start, N, G) # {}
<1> DEFINE T == {n \in 0 .. N : Walks(X, start, n, G) # {}}
<1>1. 0 \in T
    <2>1. [k \in 0 .. 0 |-> start] \in Walks(X, start, 0, G)
        BY DEF Walks
    <2> QED
        BY <2>1
<1>2. ASSUME NEW n \in 1 .. N, n - 1 \in T PROVE n \in T
    <2>1. PICK w : w \in Walks(X, start, n - 1, G)
        BY <1>2
    <2> DEFINE v == [k \in 0 .. n |-> IF k = n THEN G[n][w[n - 1]] ELSE w[k]]
    <2>2. v \in [0 .. n -> X]
        BY <2>1 DEF Walks
    <2>3. v[0] = start /\ \A k \in 1 .. n : v[k] = G[k][v[k - 1]]
        BY <2>1 DEF Walks
    <2>4. v \in Walks(X, start, n, G)
        BY <2>1, <2>2, <2>3 DEF Walks
    <2> QED
        BY <2>4
<1>3. N \in T
    <2> HIDE DEF T
    <2>1. 0 .. N \subseteq T
        BY <1>1, <1>2, UpTo
    <2> QED
        BY <2>1
<1> QED
    BY <1>3

-----------------------------------------------------------------------------
(* What the edits do to a file, line by line                               *)

\* No two lines are at addr.
AtMostOne(f, addr) ==
    \A i, j \in 1 .. f.n : f.arr[i].addr = addr /\ f.arr[j].addr = addr => i = j

\* What a hosts file is made of.
LEMMA FileFacts ==
    ASSUME NEW f \in HostsFiles
    PROVE  /\ f.n \in Nat /\ f.arr \in Seq(HostLine) /\ Len(f.arr) \in Nat /\ f.n <= Len(f.arr)
           /\ f = [arr |-> f.arr, n |-> f.n]
           /\ \A i \in 1 .. Len(f.arr) :
                  f.arr[i] \in HostLine /\ f.arr[i].addr \in Addr /\ f.arr[i].names \in HostNames
<1>1. f.n \in Nat /\ f.arr \in Seq(HostLine) /\ f.n <= Len(f.arr)
    BY DEF HostsFiles
<1>2. f = [arr |-> f.arr, n |-> f.n]
    BY DEF HostsFiles
<1>3. \A i \in 1 .. Len(f.arr) : f.arr[i] \in HostLine
    BY <1>1
<1>4. \A line \in HostLine : line.addr \in Addr /\ line.names \in HostNames
    BY DEF HostLine
<1> QED
    BY <1>1, <1>2, <1>3, <1>4

\* The first of the lines at addr.
LEMMA FirstAt ==
    ASSUME NEW f \in HostsFiles, NEW addr, LinesAt(f, addr) # {}
    PROVE  /\ Min(LinesAt(f, addr)) \in 1 .. f.n
           /\ f.arr[Min(LinesAt(f, addr))].addr = addr
           /\ \A i \in 1 .. f.n : f.arr[i].addr = addr => Min(LinesAt(f, addr)) <= i
<1>1. LinesAt(f, addr) \in SUBSET Nat
    BY FileFacts DEF LinesAt
<1> QED
    BY <1>1, LeastNat DEF LinesAt

\* The first of the lines with a host.
LEMMA FirstWith ==
    ASSUME NEW f \in HostsFiles, NEW host, LinesWith(f, host) # {}
    PROVE  /\ Min(LinesWith(f, host)) \in 1 .. f.n
           /\ host \in f.arr[Min(LinesWith(f, host))].names
<1>1. LinesWith(f, host) \in SUBSET Nat
    BY FileFacts DEF LinesWith
<1> QED
    BY <1>1, LeastNat DEF LinesWith

\* RemoveLine moves the later lines up in the array, and keeps its length.
LEMMA RemoveLineSpec ==
    ASSUME NEW f \in HostsFiles, NEW i \in 1 .. f.n
    PROVE  LET g == RemoveLine(f, i) IN
           /\ g \in HostsFiles /\ g.n = f.n - 1 /\ Len(g.arr) = Len(f.arr)
           /\ \A j \in 1 .. Len(f.arr) :
                  g.arr[j] = IF i <= j /\ j < f.n THEN f.arr[j + 1] ELSE f.arr[j]
<1> DEFINE g == RemoveLine(f, i)
<1>1. g.arr \in [1 .. Len(f.arr) -> HostLine]
    BY FileFacts DEF RemoveLine
<1>2. g.arr \in Seq(HostLine) /\ Len(g.arr) = Len(f.arr)
    <2> DEFINE a == g.arr
               m == Len(f.arr)
    <2>1. a \in [1 .. m -> HostLine] /\ m \in Nat
        BY <1>1, FileFacts
    <2> HIDE DEF a, m
    <2>2. a \in Seq(HostLine) /\ Len(a) = m
        BY <2>1
    <2> QED
        BY <2>2 DEF a, m
<1>3. g.n = f.n - 1 /\ g = [arr |-> g.arr, n |-> g.n]
    BY DEF RemoveLine
<1>4. g \in HostsFiles
    BY <1>2, <1>3, FileFacts DEF HostsFiles
<1>5. \A j \in 1 .. Len(f.arr) :
          g.arr[j] = IF i <= j /\ j < f.n THEN f.arr[j + 1] ELSE f.arr[j]
    BY DEF RemoveLine
<1> QED
    BY <1>2, <1>3, <1>4, <1>5

\* RemoveFirstAddress leaves a file.
LEMMA RemoveFirstType ==
    ASSUME NEW f \in HostsFiles, NEW addr
    PROVE  RemoveFirstAddress(f, addr) \in HostsFiles
    BY FirstAt, RemoveLineSpec DEF RemoveFirstAddress

\* The rounds of RemoveAddress.
LEMMA RemoveWalk ==
    ASSUME NEW f \in HostsFiles, NEW addr
    PROVE  \E w : /\ w[0] = f /\ \A k \in 1 .. f.n : w[k] = RemoveFirstAddress(w[k - 1], addr)
                  /\ RemoveAddress(f, addr) = w[f.n]
<1> DEFINE S(g, k) == RemoveFirstAddress(g, addr)
           G == [k \in 1 .. f.n |-> [g \in HostsFiles |-> S(g, k)]]
           IsWalk(w) == w = [k \in 0 .. f.n |-> IF k = 0 THEN f ELSE S(w[k - 1], k)]
<1>0. f.n \in Nat
    BY DEF HostsFiles
<1>1. G \in [1 .. f.n -> [HostsFiles -> HostsFiles]]
    BY RemoveFirstType
<1>2. PICK v : v \in Walks(HostsFiles, f, f.n, G)
    <2> HIDE DEF G
    <2> QED
        BY <1>0, <1>1, WalkExists
<1>3. \A k \in 1 .. f.n : G[k][v[k - 1]] = S(v[k - 1], k)
    <2> SUFFICES ASSUME NEW k \in 1 .. f.n PROVE G[k][v[k - 1]] = S(v[k - 1], k)
        OBVIOUS
    <2>1. k - 1 \in 0 .. f.n /\ v[k - 1] \in HostsFiles
        BY <1>0, <1>2 DEF Walks
    <2> QED
        BY <2>1
<1>4. IsWalk(v)
    <2> HIDE DEF G, S
    <2> QED
    BY <1>0, <1>2, <1>3 DEF Walks
<1> DEFINE w == CHOOSE w : IsWalk(w)
<1>5. IsWalk(w)
    BY <1>4
<1>6. RemoveAddress(f, addr) = w[f.n]
    BY DEF RemoveAddress, Walk
<1> HIDE DEF w
<1>7. w[0] = f /\ \A k \in 1 .. f.n : w[k] = S(w[k - 1], k)
    <2> HIDE DEF S
    <2> QED
        BY <1>0, <1>5
<1> QED
    BY <1>6, <1>7

\* g is what is left of f when only lines at addr have been removed.
Rest(f, g, addr) ==
    /\ g \in HostsFiles /\ g.n <= f.n /\ Len(g.arr) = Len(f.arr)
    /\ \A j \in 1 .. f.n : \E i \in 1 .. f.n : g.arr[j] = f.arr[i]
    /\ \A j \in f.n + 1 .. Len(f.arr) : g.arr[j] = f.arr[j]
    /\ \A i \in 1 .. f.n : f.arr[i].addr # addr => \E j \in 1 .. g.n : g.arr[j] = f.arr[i]
    /\ \A i \in 1 .. f.n : (\A j \in 1 .. i : f.arr[j].addr # addr) =>
                               i <= g.n /\ \A j \in 1 .. i : g.arr[j] = f.arr[j]
    /\ \A a : AtMostOne(f, a) => AtMostOne(g, a)

\* Each round of RemoveAddress leaves such a rest, and a shorter one as long as
\* there is a line at addr.
LEMMA RemoveFirstRest ==
    ASSUME NEW f \in HostsFiles, NEW g, NEW addr, Rest(f, g, addr)
    PROVE  LET h == RemoveFirstAddress(g, addr) IN
           Rest(f, h, addr) /\ (IF LinesAt(g, addr) = {} THEN h = g ELSE h.n < g.n)
<1> DEFINE h == RemoveFirstAddress(g, addr)
           i == Min(LinesAt(g, addr))
<1>1. CASE LinesAt(g, addr) = {}
    BY <1>1 DEF RemoveFirstAddress
<1>2. CASE LinesAt(g, addr) # {}
    <2>1. g \in HostsFiles /\ g.n <= f.n /\ Len(g.arr) = Len(f.arr)
        BY DEF Rest
    <2>2. /\ i \in 1 .. g.n /\ g.arr[i].addr = addr
          /\ h = RemoveLine(g, i)
        BY <1>2, <2>1, FirstAt DEF RemoveFirstAddress
    <2> HIDE DEF i, h
    <2>3. /\ h \in HostsFiles /\ h.n = g.n - 1 /\ Len(h.arr) = Len(g.arr)
          /\ \A j \in 1 .. Len(g.arr) :
                 h.arr[j] = IF i <= j /\ j < g.n THEN g.arr[j + 1] ELSE g.arr[j]
        BY <2>1, <2>2, RemoveLineSpec
    <2>4. f.n \in Nat /\ g.n \in Nat /\ f.n <= Len(f.arr) /\ Len(f.arr) \in Nat
        BY <2>1, FileFacts
    <2>11. h.n \in Nat /\ i \in Nat /\ 1 <= i /\ i <= g.n /\ g.n <= Len(g.arr)
        BY <2>1, <2>2, <2>3, <2>4, FileFacts
    <2>12. ASSUME NEW l \in 1 .. h.n
           PROVE  /\ l < i => l \in 1 .. g.n /\ h.arr[l] = g.arr[l]
                  /\ i <= l => l + 1 \in 1 .. g.n /\ h.arr[l] = g.arr[l + 1]
        <3>1. l \in 1 .. Len(g.arr) /\ l < g.n /\ l \in 1 .. g.n /\ l + 1 \in 1 .. g.n
            BY <2>1, <2>3, <2>4, <2>11
        <3>2. h.arr[l] = IF i <= l /\ l < g.n THEN g.arr[l + 1] ELSE g.arr[l]
            BY <2>3, <3>1
        <3>3. l < i => ~(i <= l)
            BY <2>11
        <3> QED
            BY <3>1, <3>2, <3>3
    <2>5. ASSUME NEW j \in 1 .. f.n PROVE \E k \in 1 .. f.n : h.arr[j] = f.arr[k]
        <3>1. PICK l \in 1 .. f.n : h.arr[j] = g.arr[l]
            BY <2>1, <2>3, <2>4
        <3> QED
            BY <3>1 DEF Rest
    <2>6. \A j \in f.n + 1 .. Len(f.arr) : h.arr[j] = f.arr[j]
        BY <2>1, <2>3, <2>4 DEF Rest
    <2>7. ASSUME NEW k \in 1 .. f.n, f.arr[k].addr # addr
          PROVE  \E j \in 1 .. h.n : h.arr[j] = f.arr[k]
        <3>1. PICK j \in 1 .. g.n : g.arr[j] = f.arr[k]
            BY <2>7 DEF Rest
        <3>2. CASE j < i
            <4>1. j \in 1 .. h.n
                BY <2>3, <2>4, <2>11, <3>2
            <4> QED
                BY <2>12, <3>1, <3>2, <4>1
        <3>3. CASE i < j
            <4>1. j - 1 \in 1 .. h.n /\ i <= j - 1 /\ (j - 1) + 1 = j
                BY <2>3, <2>4, <2>11, <3>3
            <4> QED
                BY <2>12, <3>1, <4>1
        <3> QED
            BY <2>2, <2>4, <2>7, <3>1, <3>2, <3>3
    <2>8. ASSUME NEW k \in 1 .. f.n, \A j \in 1 .. k : f.arr[j].addr # addr
          PROVE  k <= h.n /\ \A j \in 1 .. k : h.arr[j] = f.arr[j]
        <3>1. k <= g.n /\ \A j \in 1 .. k : g.arr[j] = f.arr[j]
            BY <2>8 DEF Rest
        <3>2. k < i
            BY <2>2, <2>4, <2>8, <3>1
        <3> QED
            BY <2>1, <2>2, <2>3, <2>4, <3>1, <3>2
    <2>9. ASSUME NEW a, AtMostOne(f, a) PROVE AtMostOne(h, a)
        <3>1. AtMostOne(g, a)
            BY <2>9 DEF Rest
        <3> SUFFICES ASSUME NEW j \in 1 .. h.n, NEW k \in 1 .. h.n,
                            h.arr[j].addr = a, h.arr[k].addr = a
                     PROVE  j = k
            BY DEF AtMostOne
        <3> DEFINE s(l) == IF i <= l THEN l + 1 ELSE l
        <3>2. \A l \in 1 .. h.n : s(l) \in 1 .. g.n /\ h.arr[l] = g.arr[s(l)]
            BY <2>11, <2>12
        <3>3. s(j) = s(k)
            BY <3>1, <3>2 DEF AtMostOne
        <3> QED
            BY <2>11, <3>3
    <2>13. h \in HostsFiles /\ h.n <= f.n /\ Len(h.arr) = Len(f.arr)
        BY <2>1, <2>3, <2>4, <2>11
    <2>10. Rest(f, h, addr)
        BY <2>5, <2>6, <2>7, <2>8, <2>9, <2>13 DEF Rest
    <2> QED
        BY <1>2, <2>3, <2>4, <2>10 DEF h
<1> QED
    BY <1>1, <1>2

\* RemoveAddress removes the lines at addr, and no others.
LEMMA RemoveAddressSpec ==
    ASSUME NEW f \in HostsFiles, NEW addr
    PROVE  Rest(f, RemoveAddress(f, addr), addr) /\ LinesAt(RemoveAddress(f, addr), addr) = {}
<1>1. PICK w : /\ w[0] = f /\ \A k \in 1 .. f.n : w[k] = RemoveFirstAddress(w[k - 1], addr)
               /\ RemoveAddress(f, addr) = w[f.n]
    BY RemoveWalk
<1>2. f.n \in Nat
    BY FileFacts
<1> DEFINE T == {k \in 0 .. f.n : /\ Rest(f, w[k], addr)
                                  /\ LinesAt(w[k], addr) = {} \/ w[k].n <= f.n - k}
<1>3. 0 \in T
    BY <1>1, <1>2, FileFacts DEF Rest
<1>4. ASSUME NEW k \in 1 .. f.n, k - 1 \in T PROVE k \in T
    <2>1. /\ Rest(f, w[k - 1], addr)
          /\ LinesAt(w[k - 1], addr) = {} \/ w[k - 1].n <= f.n - (k - 1)
        BY <1>4
    <2>2. /\ Rest(f, w[k], addr)
          /\ IF LinesAt(w[k - 1], addr) = {} THEN w[k] = w[k - 1] ELSE w[k].n < w[k - 1].n
        BY <1>1, <2>1, RemoveFirstRest
    <2>3. w[k].n \in Nat /\ w[k - 1].n \in Nat
        BY <2>1, <2>2, FileFacts DEF Rest
    <2>4. f.n - k \in Int /\ f.n - (k - 1) = (f.n - k) + 1
        BY <1>2
    <2>5. LinesAt(w[k], addr) = {} \/ w[k].n <= f.n - k
        BY <2>1, <2>2, <2>3, <2>4
    <2> QED
        BY <1>2, <2>2, <2>5
<1>5. f.n \in T
    <2> HIDE DEF T
    <2>1. 0 .. f.n \subseteq T
        BY <1>2, <1>3, <1>4, UpTo
    <2> QED
        BY <1>2, <2>1
<1>6. w[f.n].n <= 0 => LinesAt(w[f.n], addr) = {}
    BY <1>5, FileFacts DEF LinesAt, Rest
<1> QED
    BY <1>1, <1>2, <1>5, <1>6

\* The lines that RemoveAddress leaves.
LEMMA RemoveAddressLines ==
    ASSUME NEW f \in HostsFiles, NEW addr
    PROVE  Lines(RemoveAddress(f, addr)) = {l \in Lines(f) : l.addr # addr}
<1> DEFINE g == RemoveAddress(f, addr)
<1>1. Rest(f, g, addr) /\ LinesAt(g, addr) = {}
    BY RemoveAddressSpec
<1> HIDE DEF g
<1>2. g.n \in Nat /\ f.n \in Nat /\ g.n <= f.n
    BY <1>1, FileFacts DEF Rest
<1>3. ASSUME NEW l \in Lines(g) PROVE l \in Lines(f) /\ l.addr # addr
    <2>1. PICK j \in 1 .. g.n : l = g.arr[j]
        BY <1>3 DEF Lines
    <2>2. j \in 1 .. f.n
        BY <1>2
    <2>3. l \in Lines(f)
        BY <1>1, <2>1, <2>2 DEF Lines, Rest
    <2> QED
        BY <1>1, <2>1, <2>3 DEF LinesAt
<1>4. ASSUME NEW l \in Lines(f), l.addr # addr PROVE l \in Lines(g)
    <2>1. PICK i \in 1 .. f.n : l = f.arr[i]
        BY <1>4 DEF Lines
    <2> QED
        BY <1>1, <1>4, <2>1 DEF Lines, Rest
<1> QED
    BY <1>3, <1>4 DEF g

-----------------------------------------------------------------------------
(* HostsCleanup                                                            *)

\* One round of its loop.
CleanupStep(g, k) == IF TunnelLine(g.arr[k]) THEN RemoveAddress(g, g.arr[k].addr) ELSE g

\* The rounds of HostsCleanup.
LEMMA CleanupWalk ==
    ASSUME NEW f \in HostsFiles
    PROVE  \E w : /\ w[0] = f /\ \A k \in 1 .. f.n : w[k] = CleanupStep(w[k - 1], k)
                  /\ HostsCleanup(f) = w[f.n]
<1> DEFINE S(g, k) == CleanupStep(g, k)
           G == [k \in 1 .. f.n |-> [g \in HostsFiles |-> S(g, k)]]
           IsWalk(w) == w = [k \in 0 .. f.n |-> IF k = 0 THEN f ELSE S(w[k - 1], k)]
<1>0. f.n \in Nat
    BY FileFacts
<1>1. G \in [1 .. f.n -> [HostsFiles -> HostsFiles]]
    BY RemoveAddressSpec DEF CleanupStep, Rest
<1>2. PICK v : v \in Walks(HostsFiles, f, f.n, G)
    <2> HIDE DEF G
    <2> QED
        BY <1>0, <1>1, WalkExists
<1>3. \A k \in 1 .. f.n : G[k][v[k - 1]] = S(v[k - 1], k)
    <2> SUFFICES ASSUME NEW k \in 1 .. f.n PROVE G[k][v[k - 1]] = S(v[k - 1], k)
        OBVIOUS
    <2>1. k - 1 \in 0 .. f.n /\ v[k - 1] \in HostsFiles
        BY <1>0, <1>2 DEF Walks
    <2> QED
        BY <2>1
<1>4. IsWalk(v)
    <2> HIDE DEF G, S
    <2> QED
        BY <1>0, <1>2, <1>3 DEF Walks
<1> DEFINE w == CHOOSE w : IsWalk(w)
<1>5. IsWalk(w)
    BY <1>4
<1>6. HostsCleanup(f) = w[f.n]
    BY DEF HostsCleanup, RangeLines, Walk, CleanupStep, TunnelLine
<1> HIDE DEF w
<1>7. w[0] = f /\ \A k \in 1 .. f.n : w[k] = S(w[k - 1], k)
    <2> HIDE DEF S
    <2> QED
        BY <1>0, <1>5
<1> QED
    BY <1>6, <1>7

\* g is what rounds of the loop have made of f: lines of kubetunnel addresses
\* have gone, and the array has no others than it had.
Cleaned(f, g) ==
    /\ g \in HostsFiles /\ g.n <= f.n /\ Len(g.arr) = Len(f.arr)
    /\ \A j \in 1 .. f.n : \E i \in 1 .. f.n : g.arr[j] = f.arr[i]
    /\ \A l \in Lines(f) \ Lines(g) : \E tun \in Lines(f) : TunnelLine(tun) /\ tun.addr = l.addr

\* One more round: the line it removes by has a kubetunnel host and was in f.
LEMMA CleanupStepOk ==
    ASSUME NEW f \in HostsFiles, NEW k \in 1 .. f.n, NEW g, Cleaned(f, g)
    PROVE  Cleaned(f, CleanupStep(g, k))
<1>1. /\ g \in HostsFiles /\ g.n \in Nat /\ f.n \in Nat /\ g.n <= f.n /\ Len(g.arr) = Len(f.arr)
      /\ f.n <= Len(f.arr) /\ Len(f.arr) \in Nat
    BY FileFacts DEF Cleaned
<1>2. CASE ~TunnelLine(g.arr[k])
    BY <1>2 DEF CleanupStep
<1>3. CASE TunnelLine(g.arr[k])
    <2> DEFINE addr == g.arr[k].addr
               h == RemoveAddress(g, addr)
    <2>1. CleanupStep(g, k) = h
        BY <1>3 DEF CleanupStep
    <2>2. Rest(g, h, addr) /\ Lines(h) = {l \in Lines(g) : l.addr # addr}
        BY <1>1, RemoveAddressSpec, RemoveAddressLines
    <2>3. PICK t \in 1 .. f.n : g.arr[k] = f.arr[t]
        BY DEF Cleaned
    <2> HIDE DEF h
    <2>4. h \in HostsFiles /\ h.n \in Nat /\ h.n <= f.n /\ Len(h.arr) = Len(f.arr)
        BY <1>1, <2>2, FileFacts DEF Rest
    <2>5. ASSUME NEW j \in 1 .. f.n PROVE \E i \in 1 .. f.n : h.arr[j] = f.arr[i]
        <3>1. CASE j <= g.n
            <4>1. PICK i \in 1 .. g.n : h.arr[j] = g.arr[i]
                BY <1>1, <2>2, <3>1 DEF Rest
            <4>2. i \in 1 .. f.n
                BY <1>1
            <4> QED
                BY <4>1, <4>2 DEF Cleaned
        <3>2. CASE g.n < j
            <4>1. j \in g.n + 1 .. Len(g.arr)
                BY <1>1, <3>2
            <4>2. h.arr[j] = g.arr[j]
                BY <2>2, <4>1 DEF Rest
            <4> QED
                BY <4>2 DEF Cleaned
        <3> QED
            BY <1>1, <3>1, <3>2
    <2>6. ASSUME NEW l \in Lines(f) \ Lines(h)
          PROVE  \E tun \in Lines(f) : TunnelLine(tun) /\ tun.addr = l.addr
        <3>1. CASE l \in Lines(g)
            <4>1. l.addr = addr /\ f.arr[t] \in Lines(f)
                BY <2>2, <2>6, <3>1 DEF Lines
            <4> QED
                BY <1>3, <2>3, <4>1
        <3>2. CASE l \notin Lines(g)
            BY <2>6, <3>2 DEF Cleaned
        <3> QED
            BY <3>1, <3>2
    <2> QED
        BY <2>1, <2>4, <2>5, <2>6 DEF Cleaned
<1> QED
    BY <1>2, <1>3

\* What HostsCleanup removes.
LEMMA CleanupSpec ==
    ASSUME NEW f \in HostsFiles
    PROVE  Cleaned(f, HostsCleanup(f))
<1>1. PICK w : /\ w[0] = f /\ \A k \in 1 .. f.n : w[k] = CleanupStep(w[k - 1], k)
               /\ HostsCleanup(f) = w[f.n]
    BY CleanupWalk
<1>2. f.n \in Nat
    BY FileFacts
<1> DEFINE T == {k \in 0 .. f.n : Cleaned(f, w[k])}
<1>3. 0 \in T
    BY <1>1, <1>2 DEF Cleaned
<1>4. ASSUME NEW k \in 1 .. f.n, k - 1 \in T PROVE k \in T
    BY <1>1, <1>2, <1>4, CleanupStepOk
<1>5. f.n \in T
    <2> HIDE DEF T
    <2>1. 0 .. f.n \subseteq T
        BY <1>2, <1>3, <1>4, UpTo
    <2> QED
        BY <1>2, <2>1
<1> QED
    BY <1>1, <1>5

-----------------------------------------------------------------------------
(* AddHosts                                                                *)

\* The names of two lines together.
LEMMA FiniteUnion ==
    ASSUME NEW N \in HostNames, NEW M \in HostNames
    PROVE  N \cup M \in HostNames
    BY FS_Union DEF HostNames

\* A set of host names without one of them, and with it alone.
LEMMA FinitePart ==
    ASSUME NEW N \in HostNames, NEW x \in STRING
    PROVE  N \ {x} \in HostNames /\ {x} \in HostNames
<1>1. IsFiniteSet(N \ {x}) /\ IsFiniteSet({x})
    BY FS_RemoveElement, FS_Singleton DEF HostNames
<1> QED
    BY <1>1 DEF HostNames

\* WithNames changes one line.
LEMMA PutNames ==
    ASSUME NEW f \in HostsFiles, NEW i \in 1 .. f.n, NEW N \in HostNames
    PROVE  LET g == WithNames(f, i, N) IN
           /\ g \in HostsFiles /\ g.n = f.n /\ Len(g.arr) = Len(f.arr)
           /\ \A j \in 1 .. Len(f.arr) :
                  g.arr[j] = IF j = i THEN [addr |-> f.arr[i].addr, names |-> N] ELSE f.arr[j]
<1> DEFINE line == [addr |-> f.arr[i].addr, names |-> N]
           g == WithNames(f, i, N)
           a == [f.arr EXCEPT ![i] = line]
<1>1. i \in 1 .. Len(f.arr) /\ f.n \in Nat
    BY FileFacts
<1>2. f.arr[i] \in HostLine /\ line \in HostLine /\ [f.arr[i] EXCEPT !.names = N] = line
    BY <1>1, FileFacts DEF HostLine
<1>3. g = [arr |-> a, n |-> f.n]
    <2>1. g = [f EXCEPT !.arr = [f.arr EXCEPT ![i] = [f.arr[i] EXCEPT !.names = N]]]
        BY DEF WithNames
    <2>2. g = [f EXCEPT !.arr = a]
        BY <1>2, <2>1
    <2> HIDE DEF a, g
    <2>3. f \in [arr : Seq(HostLine), n : Nat]
        BY DEF HostsFiles
    <2> QED
        BY <2>2, <2>3
<1>4. a \in Seq(HostLine) /\ Len(a) = Len(f.arr)
    BY <1>1, <1>2, FileFacts
<1>5. g \in HostsFiles
    BY <1>1, <1>3, <1>4, FileFacts DEF HostsFiles
<1>6. \A j \in 1 .. Len(f.arr) : a[j] = IF j = i THEN line ELSE f.arr[j]
    BY <1>1, FileFacts
<1> HIDE DEF a, g
<1>7. g.n = f.n /\ g.arr = a
    BY <1>3
<1> QED
    BY <1>4, <1>5, <1>6, <1>7 DEF g

\* Detach loses no other host.
LEMMA DetachSpec ==
    ASSUME NEW f \in HostsFiles, NEW host \in STRING
    PROVE  LET g == Detach(f, host) IN
           /\ g \in HostsFiles /\ Len(g.arr) = Len(f.arr)
           /\ NamesIn(f) \ {host} \subseteq NamesIn(g)
<1> DEFINE i == Min(LinesWith(f, host))
           M == f.arr[i].names \ {host}
           g == WithNames(f, i, M)
           h == RemoveLine(g, i)
<1>1. CASE LinesWith(f, host) = {}
    BY <1>1 DEF Detach
<1>2. CASE LinesWith(f, host) # {}
    <2>1. i \in 1 .. f.n
        BY <1>2, FirstWith
    <2>2. f.n \in Nat /\ f.n <= Len(f.arr) /\ Len(f.arr) \in Nat /\ i \in 1 .. Len(f.arr)
        BY <2>1, FileFacts
    <2>3. M \in HostNames
        BY <2>2, FinitePart, FileFacts
    <2> HIDE DEF i
    <2>4. /\ g \in HostsFiles /\ g.n = f.n /\ Len(g.arr) = Len(f.arr)
          /\ \A j \in 1 .. Len(f.arr) : g.arr[j].names = IF j = i THEN M ELSE f.arr[j].names
        <3>1. /\ g \in HostsFiles /\ g.n = f.n /\ Len(g.arr) = Len(f.arr)
              /\ \A j \in 1 .. Len(f.arr) :
                     g.arr[j] = IF j = i THEN [addr |-> f.arr[i].addr, names |-> M] ELSE f.arr[j]
            <4> HIDE DEF M
            <4> QED
                BY <2>1, <2>3, PutNames
        <3> HIDE DEF g, M
        <3> QED
            BY <3>1
    <2>5. Detach(f, host) = IF g.arr[i].names = {} THEN h ELSE g
        BY <1>2 DEF Detach, i
    <2> HIDE DEF g
    <2>6. ASSUME NEW x \in NamesIn(f) \ {host}
          PROVE  \E j \in 1 .. f.n : x \in g.arr[j].names
        <3>1. PICK j \in 1 .. f.n : x \in f.arr[j].names
            BY DEF NamesIn
        <3>2. j \in 1 .. Len(f.arr)
            BY <2>2
        <3> QED
            BY <2>4, <3>1, <3>2
    <2>7. CASE g.arr[i].names # {}
        BY <2>4, <2>5, <2>6, <2>7 DEF NamesIn
    <2>8. CASE g.arr[i].names = {}
        <3>1. /\ h \in HostsFiles /\ h.n = g.n - 1 /\ Len(h.arr) = Len(g.arr)
              /\ \A j \in 1 .. Len(g.arr) :
                     h.arr[j] = IF i <= j /\ j < g.n THEN g.arr[j + 1] ELSE g.arr[j]
            BY <2>1, <2>4, RemoveLineSpec
        <3> HIDE DEF h
        <3>2. ASSUME NEW x \in NamesIn(f) \ {host} PROVE x \in NamesIn(h)
            <4>1. PICK j \in 1 .. f.n : x \in g.arr[j].names
                BY <2>6
            <4>2. j # i
                BY <2>8, <4>1
            <4>3. CASE j < i
                <5>1. j \in 1 .. h.n /\ j \in 1 .. Len(g.arr) /\ i \in Nat
                    BY <2>1, <2>2, <2>4, <3>1, <4>3
                <5>2. h.arr[j] = g.arr[j]
                    BY <3>1, <4>3, <5>1
                <5> QED
                    BY <4>1, <5>1, <5>2 DEF NamesIn
            <4>4. CASE i < j
                <5>1. /\ j - 1 \in 1 .. h.n /\ j - 1 \in 1 .. Len(g.arr)
                      /\ i <= j - 1 /\ j - 1 < g.n /\ (j - 1) + 1 = j
                    BY <2>1, <2>2, <2>4, <3>1, <4>4
                <5>2. h.arr[j - 1] = g.arr[j]
                    BY <3>1, <5>1
                <5> QED
                    BY <4>1, <5>1, <5>2 DEF NamesIn
            <4> QED
                BY <2>1, <2>2, <4>2, <4>3, <4>4
        <3> QED
            BY <2>4, <2>5, <2>8, <3>1, <3>2
    <2> QED
        BY <2>7, <2>8
<1> QED
    BY <1>1, <1>2

\* Attach puts names into the first line of the address.
LEMMA AttachOld ==
    ASSUME NEW f \in HostsFiles, NEW addr, NEW N \in HostNames, LinesAt(f, addr) # {}
    PROVE  LET g == Attach(f, addr, N)
               i == Min(LinesAt(f, addr))
           IN  /\ i \in 1 .. f.n /\ f.arr[i].addr = addr
               /\ g \in HostsFiles /\ g.n = f.n /\ Len(g.arr) = Len(f.arr)
               /\ \A j \in 1 .. Len(f.arr) :
                      g.arr[j] = IF j = i THEN [addr |-> addr, names |-> f.arr[i].names \cup N]
                                 ELSE f.arr[j]
<1> DEFINE i == Min(LinesAt(f, addr))
<1>1. i \in 1 .. f.n /\ f.arr[i].addr = addr
    BY FirstAt
<1>2. i \in 1 .. Len(f.arr) /\ f.arr[i].names \in HostNames
    BY <1>1, FileFacts
<1>3. f.arr[i].names \cup N \in HostNames
    BY <1>2, FiniteUnion
<1> DEFINE M == f.arr[i].names \cup N
           g == WithNames(f, i, M)
<1>4. Attach(f, addr, N) = g
    BY DEF Attach
<1>5. /\ g \in HostsFiles /\ g.n = f.n /\ Len(g.arr) = Len(f.arr)
      /\ \A j \in 1 .. Len(f.arr) :
             g.arr[j] = IF j = i THEN [addr |-> f.arr[i].addr, names |-> M] ELSE f.arr[j]
    <2>1. M \in HostNames
        BY <1>3
    <2> HIDE DEF i, M
    <2> QED
        BY <1>1, <2>1, PutNames
<1> QED
    BY <1>1, <1>4, <1>5

\* The same with a new line.
LEMMA AttachNew ==
    ASSUME NEW f \in HostsFiles, NEW addr \in Addr, NEW N \in HostNames, LinesAt(f, addr) = {}
    PROVE  LET g == Attach(f, addr, N) IN
           /\ g \in HostsFiles /\ g.n = f.n + 1
           /\ Len(g.arr) = IF f.n = Len(f.arr) THEN f.n + 1 ELSE Len(f.arr)
           /\ g.arr[f.n + 1] = [addr |-> addr, names |-> N]
           /\ \A j \in 1 .. Len(f.arr) : j # f.n + 1 => g.arr[j] = f.arr[j]
<1> DEFINE line == [addr |-> addr, names |-> N]
           a == IF f.n < Len(f.arr) THEN [f.arr EXCEPT ![f.n + 1] = line]
                                    ELSE Append(f.arr, line)
<1>1. Attach(f, addr, N) = [arr |-> a, n |-> f.n + 1]
    BY DEF Attach
<1>2. line \in HostLine
    BY DEF HostLine
<1>3. /\ f.n \in Nat /\ f.arr \in Seq(HostLine) /\ Len(f.arr) \in Nat /\ f.n <= Len(f.arr)
    BY FileFacts
<1>4. CASE f.n < Len(f.arr)
    <2>1. f.n + 1 \in 1 .. Len(f.arr)
        BY <1>3, <1>4
    <2>2. a \in Seq(HostLine) /\ Len(a) = Len(f.arr)
        BY <1>2, <1>3, <1>4, <2>1
    <2>3. a[f.n + 1] = line /\ \A j \in 1 .. Len(f.arr) : j # f.n + 1 => a[j] = f.arr[j]
        BY <1>3, <1>4, <2>1
    <2> HIDE DEF a
    <2>4. [arr |-> a, n |-> f.n + 1] \in HostsFiles
        BY <1>3, <2>1, <2>2 DEF HostsFiles
    <2> QED
        BY <1>1, <1>3, <1>4, <2>2, <2>3, <2>4
<1>5. CASE f.n = Len(f.arr)
    <2>1. a = Append(f.arr, line)
        BY <1>3, <1>5
    <2>2. a \in Seq(HostLine) /\ Len(a) = Len(f.arr) + 1
        BY <1>2, <1>3, <2>1
    <2>3. a[f.n + 1] = line /\ \A j \in 1 .. Len(f.arr) : j # f.n + 1 => a[j] = f.arr[j]
        BY <1>2, <1>3, <1>5, <2>1
    <2> HIDE DEF a
    <2>4. [arr |-> a, n |-> f.n + 1] \in HostsFiles
        BY <1>3, <1>5, <2>2 DEF HostsFiles
    <2> QED
        BY <1>1, <1>3, <1>5, <2>2, <2>3, <2>4
<1> QED
    BY <1>3, <1>4, <1>5

\* Attach loses no host and adds those it is given.
LEMMA AttachNames ==
    ASSUME NEW f \in HostsFiles, NEW addr \in Addr, NEW N \in HostNames
    PROVE  LET g == Attach(f, addr, N) IN
           /\ g \in HostsFiles /\ Len(f.arr) <= Len(g.arr)
           /\ NamesIn(g) = NamesIn(f) \cup N
<1> DEFINE g == Attach(f, addr, N)
<1>1. f.n \in Nat /\ Len(f.arr) \in Nat /\ \A j \in 1 .. f.n : j \in 1 .. Len(f.arr) /\ j # f.n + 1
    BY FileFacts
<1>2. CASE LinesAt(f, addr) # {}
    <2> DEFINE i == Min(LinesAt(f, addr))
    <2>1. /\ i \in 1 .. f.n /\ f.arr[i].addr = addr
          /\ g \in HostsFiles /\ g.n = f.n /\ Len(g.arr) = Len(f.arr)
          /\ \A j \in 1 .. Len(f.arr) :
                 g.arr[j] = IF j = i THEN [addr |-> addr, names |-> f.arr[i].names \cup N]
                                     ELSE f.arr[j]
        BY <1>2, AttachOld
    <2> HIDE DEF g, i
    <2>2. g.arr[i].names = f.arr[i].names \cup N
        BY <1>1, <2>1
    <2>3. \A j \in 1 .. f.n : j # i => g.arr[j].names = f.arr[j].names
        BY <1>1, <2>1
    <2>4. \A x : x \in NamesIn(g) <=> x \in NamesIn(f) \/ x \in N
        BY <2>1, <2>2, <2>3 DEF NamesIn
    <2>5. NamesIn(g) = NamesIn(f) \cup N
        BY <2>4
    <2> QED
        BY <1>1, <2>1, <2>5 DEF g
<1>3. CASE LinesAt(f, addr) = {}
    <2>1. /\ g \in HostsFiles /\ g.n = f.n + 1
          /\ Len(g.arr) = IF f.n = Len(f.arr) THEN f.n + 1 ELSE Len(f.arr)
          /\ g.arr[f.n + 1] = [addr |-> addr, names |-> N]
          /\ \A j \in 1 .. Len(f.arr) : j # f.n + 1 => g.arr[j] = f.arr[j]
        BY <1>3, AttachNew
    <2> HIDE DEF g
    <2>2. 1 .. g.n = 1 .. f.n \cup {f.n + 1}
        BY <1>1, <2>1
    <2>3. g.arr[f.n + 1].names = N /\ \A j \in 1 .. f.n : g.arr[j].names = f.arr[j].names
        BY <1>1, <2>1
    <2>4. NamesIn(g) = NamesIn(f) \cup N
        BY <2>2, <2>3 DEF NamesIn
    <2>5. Len(f.arr) <= Len(g.arr)
        BY <1>1, <2>1
    <2> QED
        BY <2>1, <2>4, <2>5 DEF g
<1> QED
    BY <1>2, <1>3

\* A host is found if and only if some line has it.
LEMMA LookupFinds ==
    ASSUME NEW f \in HostsFiles, NEW host
    PROVE  /\ Lookup(f, host) = NoAddr <=> host \notin NamesIn(f)
           /\ host \in NamesIn(f) =>
                  \E i \in 1 .. f.n : host \in f.arr[i].names /\ Lookup(f, host) = f.arr[i].addr
<1>1. LinesWith(f, host) # {} <=> host \in NamesIn(f)
    BY DEF LinesWith, NamesIn
<1>2. CASE LinesWith(f, host) = {}
    BY <1>1, <1>2 DEF Lookup
<1>3. CASE LinesWith(f, host) # {}
    <2> DEFINE i == Min(LinesWith(f, host))
    <2>1. i \in 1 .. f.n /\ host \in f.arr[i].names /\ Lookup(f, host) = f.arr[i].addr
        BY <1>3, FirstWith DEF Lookup
    <2> HIDE DEF i
    <2>2. i \in 1 .. Len(f.arr)
        BY <2>1, FileFacts
    <2>3. f.arr[i].addr # NoAddr
        BY <2>2, FileFacts DEF Addr
    <2> QED
        BY <1>1, <1>3, <2>1, <2>3
<1> QED
    BY <1>2, <1>3

\* A host no line has is attached as it is.
LEMMA AddHostFresh ==
    ASSUME NEW f \in HostsFiles, NEW addr \in Addr, NEW host, host \notin NamesIn(f)
    PROVE  AddHost(f, addr, host) = Attach(f, addr, {host})
<1>1. LinesWith(f, host) = {}
    BY DEF LinesWith, NamesIn
<1>2. Lookup(f, host) # addr
    BY <1>1 DEF Lookup, Addr
<1> QED
    BY <1>1, <1>2 DEF AddHost, Detach

\* AddHost loses no host.
LEMMA AddHostSpec ==
    ASSUME NEW f \in HostsFiles, NEW addr \in Addr, NEW host \in STRING
    PROVE  LET g == AddHost(f, addr, host) IN
           /\ g \in HostsFiles /\ Len(f.arr) <= Len(g.arr)
           /\ NamesIn(f) \subseteq NamesIn(g) /\ host \in NamesIn(g)
<1>1. CASE Lookup(f, host) = addr
    <2>1. Lookup(f, host) # NoAddr
        BY <1>1 DEF Addr
    <2> QED
        BY <1>1, <2>1, LookupFinds, FileFacts DEF AddHost
<1>2. CASE Lookup(f, host) # addr
    <2> DEFINE d == Detach(f, host)
    <2>1. d \in HostsFiles /\ Len(d.arr) = Len(f.arr) /\ NamesIn(f) \ {host} \subseteq NamesIn(d)
        BY DetachSpec
    <2>2. {} \in HostNames /\ {host} \in HostNames
        BY FS_EmptySet, FinitePart DEF HostNames
    <2> HIDE DEF d
    <2>3. /\ Attach(d, addr, {host}) \in HostsFiles /\ Len(d.arr) <= Len(Attach(d, addr, {host}).arr)
          /\ NamesIn(Attach(d, addr, {host})) = NamesIn(d) \cup {host}
        BY <2>1, <2>2, AttachNames
    <2>4. AddHost(f, addr, host) = Attach(d, addr, {host})
        BY <1>2 DEF AddHost, d
    <2> QED
        BY <2>1, <2>3, <2>4
<1> QED
    BY <1>1, <1>2

\* SetToSeq has each element at one place.
LEMMA Enumerated ==
    ASSUME NEW S, IsFiniteSet(S)
    PROVE  LET o == SetToSeq(S) IN
           /\ Len(o) \in Nat /\ o \in [1 .. Len(o) -> S]
           /\ \A j, k \in 1 .. Len(o) : o[j] = o[k] => j = k
           /\ S = {o[k] : k \in 1 .. Len(o)}
<1> DEFINE n == Cardinality(S)
           o == SetToSeq(S)
<1>1. n \in Nat /\ ExistsBijection(1 .. n, S)
    BY FS_CardinalityType
<1>2. \E q \in [1 .. n -> S] : IsInjective(q)
    BY <1>1 DEF ExistsBijection, Bijection, Injection
<1>3. o \in [1 .. n -> S] /\ IsInjective(o)
    BY <1>2 DEF SetToSeq
<1> HIDE DEF o
<1>4. o \in Injection(1 .. n, S)
    BY <1>3 DEF Injection
<1>5. Cardinality(1 .. n) = n
    BY <1>1, FS_Interval
<1>6. o \in Surjection(1 .. n, S)
    <2> HIDE DEF n
    <2> QED
    BY <1>4, <1>5, FS_Injection DEF n
<1>7. Len(o) = n
    BY <1>1, <1>3
<1>8. \A x \in S : \E k \in 1 .. n : o[k] = x
    BY <1>6 DEF Surjection
<1>9. S = {o[k] : k \in 1 .. n}
    BY <1>3, <1>8
<1> QED
    BY <1>1, <1>3, <1>7, <1>9 DEF IsInjective, o

\* The rounds of AddHosts.
LEMMA AddHostsWalk ==
    ASSUME NEW f \in HostsFiles, NEW addr \in Addr, NEW names \in HostNames
    PROVE  LET o == SetToSeq(names) IN
           \E w : /\ w[0] = f /\ \A k \in 1 .. Len(o) : w[k] = AddHost(w[k - 1], addr, o[k])
                  /\ AddHosts(f, addr, names) = w[Len(o)]
<1> DEFINE o == SetToSeq(names)
           n == Len(o)
           S(g, k) == AddHost(g, addr, o[k])
           G == [k \in 1 .. n |-> [g \in HostsFiles |-> S(g, k)]]
           IsWalk(w) == w = [k \in 0 .. n |-> IF k = 0 THEN f ELSE S(w[k - 1], k)]
<1>0. n \in Nat /\ \A k \in 1 .. n : o[k] \in STRING
    BY Enumerated DEF HostNames
<1> HIDE DEF o
<1>1. G \in [1 .. n -> [HostsFiles -> HostsFiles]]
    BY <1>0, AddHostSpec
<1> HIDE DEF n
<1>2. PICK v : v \in Walks(HostsFiles, f, n, G)
    <2> HIDE DEF G
    <2> QED
        BY <1>0, <1>1, WalkExists
<1>3. \A k \in 1 .. n : G[k][v[k - 1]] = S(v[k - 1], k)
    <2> SUFFICES ASSUME NEW k \in 1 .. n PROVE G[k][v[k - 1]] = S(v[k - 1], k)
        OBVIOUS
    <2>1. k - 1 \in 0 .. n /\ v[k - 1] \in HostsFiles
        BY <1>0, <1>2 DEF Walks
    <2> QED
        BY <2>1
<1>4. IsWalk(v)
    <2> HIDE DEF G, S
    <2> QED
        BY <1>0, <1>2, <1>3 DEF Walks
<1> DEFINE w == CHOOSE w : IsWalk(w)
<1>5. IsWalk(w)
    BY <1>4
<1>6. AddHosts(f, addr, names) = w[n]
    BY DEF AddHosts, Walk, o, n
<1> HIDE DEF w
<1>7. w[0] = f /\ \A k \in 1 .. n : w[k] = S(w[k - 1], k)
    <2> HIDE DEF S
    <2> QED
        BY <1>0, <1>5
<1> QED
    BY <1>6, <1>7 DEF n, o

\* AddHosts adds what it is given and loses no host.
LEMMA AddHostsNames ==
    ASSUME NEW f \in HostsFiles, NEW addr \in Addr, NEW names \in HostNames
    PROVE  LET g == AddHosts(f, addr, names) IN
           /\ g \in HostsFiles /\ Len(f.arr) <= Len(g.arr)
           /\ NamesIn(f) \cup names \subseteq NamesIn(g)
<1> DEFINE o == SetToSeq(names)
<1>1. /\ Len(o) \in Nat /\ names = {o[k] : k \in 1 .. Len(o)}
      /\ \A k \in 1 .. Len(o) : o[k] \in STRING
    BY Enumerated DEF HostNames
<1>2. PICK w : /\ w[0] = f /\ \A k \in 1 .. Len(o) : w[k] = AddHost(w[k - 1], addr, o[k])
               /\ AddHosts(f, addr, names) = w[Len(o)]
    BY AddHostsWalk
<1> HIDE DEF o
<1> DEFINE T == {k \in 0 .. Len(o) :
                    /\ w[k] \in HostsFiles /\ Len(f.arr) <= Len(w[k].arr)
                    /\ NamesIn(f) \subseteq NamesIn(w[k])
                    /\ \A j \in 1 .. k : o[j] \in NamesIn(w[k])}
<1>3. 0 \in T
    BY <1>1, <1>2, FileFacts
<1>4. ASSUME NEW k \in 1 .. Len(o), k - 1 \in T PROVE k \in T
    <2>1. /\ w[k] \in HostsFiles /\ Len(w[k - 1].arr) <= Len(w[k].arr)
          /\ NamesIn(w[k - 1]) \subseteq NamesIn(w[k])
          /\ o[k] \in NamesIn(w[k])
        BY <1>1, <1>2, <1>4, AddHostSpec
    <2>2. \A j \in 1 .. k : j \in 1 .. k - 1 \/ j = k
        BY <1>1
    <2>3. Len(f.arr) \in Nat /\ Len(w[k - 1].arr) \in Nat /\ Len(w[k].arr) \in Nat
        BY <1>4, <2>1, FileFacts
    <2>4. Len(f.arr) <= Len(w[k].arr)
        <3>1. Len(f.arr) <= Len(w[k - 1].arr)
            BY <1>4
        <3>2. Len(w[k - 1].arr) <= Len(w[k].arr)
            BY <2>1
        <3> DEFINE a == Len(f.arr)
                   b == Len(w[k - 1].arr)
                   c == Len(w[k].arr)
        <3>3. a \in Nat /\ b \in Nat /\ c \in Nat /\ a <= b /\ b <= c
            BY <2>3, <3>1, <3>2
        <3> HIDE DEF a, b, c
        <3>4. a <= c
            BY <3>3
        <3> QED
            BY <3>4 DEF a, c
    <2> QED
        BY <1>1, <1>4, <2>1, <2>2, <2>4
<1>5. Len(o) \in T
    <2> HIDE DEF T
    <2>1. 0 .. Len(o) \subseteq T
        BY <1>1, <1>3, <1>4, UpTo
    <2> QED
        BY <1>1, <2>1
<1> QED
    BY <1>1, <1>2, <1>5

\* The rounds of RemoveHosts.
LEMMA RemoveHostsWalk ==
    ASSUME NEW f \in HostsFiles, NEW names \in HostNames
    PROVE  LET o == SetToSeq(names) IN
           \E w : /\ w[0] = f /\ \A k \in 1 .. Len(o) : w[k] = Detach(w[k - 1], o[k])
                  /\ RemoveHosts(f, o) = w[Len(o)]
<1> DEFINE o == SetToSeq(names)
           n == Len(o)
           S(g, k) == Detach(g, o[k])
           G == [k \in 1 .. n |-> [g \in HostsFiles |-> S(g, k)]]
           IsWalk(w) == w = [k \in 0 .. n |-> IF k = 0 THEN f ELSE S(w[k - 1], k)]
<1>0. n \in Nat /\ \A k \in 1 .. n : o[k] \in STRING
    BY Enumerated DEF HostNames
<1> HIDE DEF o
<1>1. G \in [1 .. n -> [HostsFiles -> HostsFiles]]
    BY <1>0, DetachSpec
<1> HIDE DEF n
<1>2. PICK v : v \in Walks(HostsFiles, f, n, G)
    <2> HIDE DEF G
    <2> QED
        BY <1>0, <1>1, WalkExists
<1>3. \A k \in 1 .. n : G[k][v[k - 1]] = S(v[k - 1], k)
    <2> SUFFICES ASSUME NEW k \in 1 .. n PROVE G[k][v[k - 1]] = S(v[k - 1], k)
        OBVIOUS
    <2>1. k - 1 \in 0 .. n /\ v[k - 1] \in HostsFiles
        BY <1>0, <1>2 DEF Walks
    <2> QED
        BY <2>1
<1>4. IsWalk(v)
    <2> HIDE DEF G, S
    <2> QED
        BY <1>0, <1>2, <1>3 DEF Walks
<1> DEFINE w == CHOOSE w : IsWalk(w)
<1>5. IsWalk(w)
    BY <1>4
<1>6. RemoveHosts(f, o) = w[n]
    BY DEF RemoveHosts, Walk, n
<1> HIDE DEF w
<1>7. w[0] = f /\ \A k \in 1 .. n : w[k] = S(w[k - 1], k)
    <2> HIDE DEF S
    <2> QED
        BY <1>0, <1>5
<1> QED
    BY <1>6, <1>7 DEF n, o

\* RemoveHosts takes no other hosts than it is given.
LEMMA RemoveHostsNames ==
    ASSUME NEW f \in HostsFiles, NEW names \in HostNames
    PROVE  LET g == RemoveHosts(f, SetToSeq(names)) IN
           g \in HostsFiles /\ NamesIn(f) \ names \subseteq NamesIn(g)
<1> DEFINE o == SetToSeq(names)
<1>1. Len(o) \in Nat /\ \A k \in 1 .. Len(o) : o[k] \in names /\ o[k] \in STRING
    BY Enumerated DEF HostNames
<1>2. PICK w : /\ w[0] = f /\ \A k \in 1 .. Len(o) : w[k] = Detach(w[k - 1], o[k])
               /\ RemoveHosts(f, o) = w[Len(o)]
    BY RemoveHostsWalk
<1> HIDE DEF o
<1> DEFINE T == {k \in 0 .. Len(o) : w[k] \in HostsFiles /\ NamesIn(f) \ names \subseteq NamesIn(w[k])}
<1>3. 0 \in T
    BY <1>1, <1>2
<1>4. ASSUME NEW k \in 1 .. Len(o), k - 1 \in T PROVE k \in T
    <2>1. w[k] \in HostsFiles /\ NamesIn(w[k - 1]) \ {o[k]} \subseteq NamesIn(w[k])
        BY <1>1, <1>2, <1>4, DetachSpec
    <2> QED
        BY <1>1, <1>4, <2>1
<1>5. Len(o) \in T
    <2> HIDE DEF T
    <2>1. 0 .. Len(o) \subseteq T
        BY <1>1, <1>3, <1>4, UpTo
    <2> QED
        BY <1>1, <2>1
<1> QED
    BY <1>2, <1>5 DEF o

\* Hosts that are where they shall be stay there.
LEMMA AddHostsThere ==
    ASSUME NEW f \in HostsFiles, NEW addr \in Addr, NEW names \in HostNames,
           \A h \in names : Lookup(f, h) = addr
    PROVE  AddHosts(f, addr, names) = f
<1> DEFINE o == SetToSeq(names)
<1>1. Len(o) \in Nat /\ \A k \in 1 .. Len(o) : o[k] \in names
    BY Enumerated DEF HostNames
<1>2. PICK w : /\ w[0] = f /\ \A k \in 1 .. Len(o) : w[k] = AddHost(w[k - 1], addr, o[k])
               /\ AddHosts(f, addr, names) = w[Len(o)]
    BY AddHostsWalk
<1> HIDE DEF o
<1> DEFINE T == {k \in 0 .. Len(o) : w[k] = f}
<1>3. 0 \in T
    BY <1>1, <1>2
<1>4. ASSUME NEW k \in 1 .. Len(o), k - 1 \in T PROVE k \in T
    <2>1. w[k] = AddHost(f, addr, o[k]) /\ Lookup(f, o[k]) = addr
        BY <1>1, <1>2, <1>4
    <2> QED
        BY <1>1, <2>1 DEF AddHost
<1>5. Len(o) \in T
    <2> HIDE DEF T
    <2>1. 0 .. Len(o) \subseteq T
        BY <1>1, <1>3, <1>4, UpTo
    <2> QED
        BY <1>1, <2>1
<1> QED
    BY <1>2, <1>5

\* Files with the same lines in all slots are the same.
LEMMA SameFile ==
    ASSUME NEW f \in HostsFiles, NEW g \in HostsFiles, f.n = g.n, Len(f.arr) = Len(g.arr),
           \A j \in 1 .. Len(f.arr) : f.arr[j] = g.arr[j]
    PROVE  f = g
<1>1. f.arr = g.arr
    BY FileFacts
<1>2. f = [arr |-> f.arr, n |-> f.n] /\ g = [arr |-> g.arr, n |-> g.n]
    BY FileFacts
<1> QED
    BY <1>1, <1>2

\* What is attached to an address in two steps may be in one.
LEMMA AttachTwice ==
    ASSUME NEW f \in HostsFiles, NEW addr \in Addr, NEW N \in HostNames, NEW M \in HostNames
    PROVE  Attach(Attach(f, addr, N), addr, M) = Attach(f, addr, N \cup M)
<1> DEFINE g == Attach(f, addr, N)
           h == Attach(g, addr, M)
           u == Attach(f, addr, N \cup M)
<1>1. N \cup M \in HostNames
    BY FiniteUnion
<1>2. f.n \in Nat /\ Len(f.arr) \in Nat /\ f.n <= Len(f.arr)
    BY FileFacts
<1>3. CASE LinesAt(f, addr) # {}
    <2> DEFINE i == Min(LinesAt(f, addr))
    <2>1. /\ i \in 1 .. f.n /\ f.arr[i].addr = addr
          /\ g \in HostsFiles /\ g.n = f.n /\ Len(g.arr) = Len(f.arr)
          /\ \A j \in 1 .. Len(f.arr) :
                 g.arr[j] = IF j = i THEN [addr |-> addr, names |-> f.arr[i].names \cup N]
                            ELSE f.arr[j]
        <3>1. LET g1 == Attach(f, addr, N)
                  i1 == Min(LinesAt(f, addr))
              IN  /\ i1 \in 1 .. f.n /\ f.arr[i1].addr = addr
                  /\ g1 \in HostsFiles /\ g1.n = f.n /\ Len(g1.arr) = Len(f.arr)
                  /\ \A j \in 1 .. Len(f.arr) :
                         g1.arr[j] = IF j = i1 THEN [addr |-> addr, names |-> f.arr[i1].names \cup N]
                                     ELSE f.arr[j]
            BY <1>3, AttachOld, SMTT(20)
        <3> QED
            BY <3>1
    <2>2. /\ u \in HostsFiles /\ u.n = f.n /\ Len(u.arr) = Len(f.arr)
          /\ \A j \in 1 .. Len(f.arr) :
                 u.arr[j] = IF j = i THEN [addr |-> addr, names |-> f.arr[i].names \cup (N \cup M)]
                            ELSE f.arr[j]
        <3> HIDE DEF u
        <3>1. u = Attach(f, addr, N \cup M)
            BY DEF u
        <3> DEFINE K == N \cup M
        <3>2. K \in HostNames
            BY <1>1
        <3> HIDE DEF K
        <3>3. u = Attach(f, addr, K)
            BY <3>1 DEF K
        <3>4. /\ u \in HostsFiles /\ u.n = f.n /\ Len(u.arr) = Len(f.arr)
              /\ \A j \in 1 .. Len(f.arr) :
                     u.arr[j] = IF j = i THEN [addr |-> addr, names |-> f.arr[i].names \cup K]
                                ELSE f.arr[j]
            BY <1>3, <3>2, <3>3, AttachOld
        <3> QED
            BY <3>4 DEF K
    <2>3. LinesAt(g, addr) = LinesAt(f, addr)
        <3> HIDE DEF g, i
        <3>1. \A j \in 1 .. f.n : g.arr[j].addr = addr <=> f.arr[j].addr = addr
            BY <1>2, <2>1
        <3> QED
            BY <2>1, <3>1 DEF LinesAt
    <2>4. /\ h \in HostsFiles /\ h.n = g.n /\ Len(h.arr) = Len(g.arr)
          /\ \A j \in 1 .. Len(g.arr) :
                 h.arr[j] = IF j = i THEN [addr |-> addr, names |-> g.arr[i].names \cup M]
                            ELSE g.arr[j]
        <3> HIDE DEF g
        <3> QED
            BY <1>3, <2>1, <2>3, AttachOld
    <2> HIDE DEF g, h, u, i
    <2>5. i \in 1 .. Len(f.arr)
        BY <1>2, <2>1
    <2>6. g.arr[i].names = f.arr[i].names \cup N
        BY <2>1, <2>5
    <2>7. (f.arr[i].names \cup N) \cup M = f.arr[i].names \cup (N \cup M)
        OBVIOUS
    <2>8. ASSUME NEW j \in 1 .. Len(h.arr) PROVE h.arr[j] = u.arr[j]
        <3>1. j \in 1 .. Len(f.arr) /\ j \in 1 .. Len(g.arr)
            BY <2>1, <2>4
        <3>2. CASE j = i
            BY <2>2, <2>4, <2>6, <2>7, <3>1, <3>2
        <3>3. CASE j # i
            BY <2>1, <2>2, <2>4, <3>1, <3>3
        <3> QED
            BY <3>2, <3>3
    <2>9. h = u
        BY <2>1, <2>2, <2>4, <2>8, SameFile
    <2> QED
        BY <2>9 DEF g, h, u
<1>4. CASE LinesAt(f, addr) = {}
    <2>1. /\ g \in HostsFiles /\ g.n = f.n + 1 /\ g.arr[f.n + 1] = [addr |-> addr, names |-> N]
          /\ \A j \in 1 .. Len(f.arr) : j # f.n + 1 => g.arr[j] = f.arr[j]
          /\ Len(g.arr) = IF f.n = Len(f.arr) THEN f.n + 1 ELSE Len(f.arr)
        BY <1>4, AttachNew
    <2>2. /\ u \in HostsFiles /\ u.n = f.n + 1
          /\ u.arr[f.n + 1] = [addr |-> addr, names |-> N \cup M]
          /\ \A j \in 1 .. Len(f.arr) : j # f.n + 1 => u.arr[j] = f.arr[j]
          /\ Len(u.arr) = IF f.n = Len(f.arr) THEN f.n + 1 ELSE Len(f.arr)
        <3> DEFINE K == N \cup M
        <3>1. K \in HostNames
            BY <1>1
        <3> HIDE DEF K
        <3>2. /\ Attach(f, addr, K) \in HostsFiles /\ Attach(f, addr, K).n = f.n + 1
              /\ Attach(f, addr, K).arr[f.n + 1] = [addr |-> addr, names |-> K]
              /\ \A j \in 1 .. Len(f.arr) : j # f.n + 1 => Attach(f, addr, K).arr[j] = f.arr[j]
              /\ Len(Attach(f, addr, K).arr) = IF f.n = Len(f.arr) THEN f.n + 1 ELSE Len(f.arr)
            BY <1>4, <3>1, AttachNew
        <3> QED
            BY <3>2 DEF K
    <2> DEFINE i == f.n + 1
    <2>3. LinesAt(g, addr) # {} /\ Min(LinesAt(g, addr)) = i
        <3> HIDE DEF g
        <3>4. ASSUME NEW j \in 1 .. g.n, j # i PROVE g.arr[j].addr # addr
            <4>1. j \in 1 .. f.n /\ j \in 1 .. Len(f.arr)
                BY <1>2, <2>1, <3>4
            <4> QED
                BY <1>4, <2>1, <3>4, <4>1 DEF LinesAt
        <3>1. \A j \in 1 .. g.n : g.arr[j].addr = addr <=> j = i
            BY <2>1, <3>4
        <3>2. i \in 1 .. g.n
            BY <1>2, <2>1
        <3>3. LinesAt(g, addr) # {}
            BY <2>1, <3>2 DEF LinesAt
        <3> QED
            BY <2>1, <3>1, <3>3, FirstAt
    <2>4. /\ h \in HostsFiles /\ h.n = g.n /\ Len(h.arr) = Len(g.arr)
          /\ \A j \in 1 .. Len(g.arr) :
                 h.arr[j] = IF j = i THEN [addr |-> addr, names |-> g.arr[i].names \cup M]
                            ELSE g.arr[j]
        <3> HIDE DEF g
        <3>1. LET h1 == Attach(g, addr, M)
                  i1 == Min(LinesAt(g, addr))
              IN  /\ h1 \in HostsFiles /\ h1.n = g.n /\ Len(h1.arr) = Len(g.arr)
                  /\ \A j \in 1 .. Len(g.arr) :
                         h1.arr[j] = IF j = i1 THEN [addr |-> addr, names |-> g.arr[i1].names \cup M]
                                     ELSE g.arr[j]
            BY <2>1, <2>3, AttachOld
        <3> QED
            BY <2>3, <3>1
    <2> HIDE DEF g, h, u
    <2>5. i \in 1 .. Len(g.arr) /\ g.arr[i].names = N
        BY <1>2, <2>1
    <2>6. ASSUME NEW j \in 1 .. Len(h.arr) PROVE h.arr[j] = u.arr[j]
        <3>1. CASE j = i
            BY <2>2, <2>4, <2>5, <3>1
        <3>2. CASE j # i
            <4>1. j \in 1 .. Len(f.arr) /\ j \in 1 .. Len(g.arr)
                BY <1>2, <2>1, <2>4, <3>2
            <4> QED
                BY <2>1, <2>2, <2>4, <3>2, <4>1
        <3> QED
            BY <3>1, <3>2
    <2>7. h.n = u.n /\ Len(h.arr) = Len(u.arr)
        BY <2>1, <2>2, <2>4
    <2>8. h = u
        BY <2>2, <2>4, <2>6, <2>7, SameFile
    <2> QED
        BY <2>8 DEF g, h, u
<1> QED
    BY <1>3, <1>4

\* Hosts that no line has come into one line together.
LEMMA AddHostsFresh ==
    ASSUME NEW f \in HostsFiles, NEW addr \in Addr, NEW names \in HostNames,
           names # {}, names \cap NamesIn(f) = {}
    PROVE  AddHosts(f, addr, names) = Attach(f, addr, names)
<1> DEFINE o == SetToSeq(names)
           Upto(k) == {o[j] : j \in 1 .. k}
<1>1. /\ Len(o) \in Nat /\ names = Upto(Len(o))
      /\ \A j, k \in 1 .. Len(o) : o[j] = o[k] => j = k
      /\ \A k \in 1 .. Len(o) : o[k] \in names
    <2>1. IsFiniteSet(names)
        BY DEF HostNames
    <2>2. /\ Len(o) \in Nat /\ o \in [1 .. Len(o) -> names]
          /\ \A j, k \in 1 .. Len(o) : o[j] = o[k] => j = k
          /\ names = {o[k] : k \in 1 .. Len(o)}
        BY <2>1, Enumerated, ZenonT(60)
    <2> HIDE DEF o
    <2> QED
        BY <2>2
<1>2. PICK w : /\ w[0] = f /\ \A k \in 1 .. Len(o) : w[k] = AddHost(w[k - 1], addr, o[k])
               /\ AddHosts(f, addr, names) = w[Len(o)]
    BY AddHostsWalk
<1> HIDE DEF o
<1>3. \A k \in 0 .. Len(o) : Upto(k) \in HostNames
    <2> SUFFICES ASSUME NEW k \in 0 .. Len(o) PROVE Upto(k) \in HostNames
        OBVIOUS
    <2>1. Upto(k) \subseteq names
        BY <1>1
    <2> QED
        BY <2>1, FS_Subset DEF HostNames
<1>4. \A k \in 1 .. Len(o) : {o[k]} \in HostNames
    BY <1>1, FinitePart DEF HostNames
<1> DEFINE T == {k \in 0 .. Len(o) : k # 0 => w[k] = Attach(f, addr, Upto(k))}
<1>5. 0 \in T
    BY <1>1, <1>2
<1>6. ASSUME NEW k \in 1 .. Len(o), k - 1 \in T PROVE k \in T
    <2>1. o[k] \notin NamesIn(f)
        BY <1>1
    <2>4. k \in 0 .. Len(o)
        BY <1>1
    <2>2. CASE k = 1
        <3>1. w[k] = Attach(f, addr, {o[k]})
            BY <1>2, <2>1, <2>2, AddHostFresh
        <3>2. Upto(k) = {o[k]}
            BY <2>2
        <3> HIDE DEF Upto
        <3>3. w[k] = Attach(f, addr, Upto(k))
            BY <3>1, <3>2
        <3> QED
            BY <2>4, <3>3
    <2>3. CASE k # 1
        <3>1. k - 1 \in 0 .. Len(o) /\ k - 1 # 0 /\ w[k - 1] = Attach(f, addr, Upto(k - 1))
            BY <1>1, <1>6, <2>3
        <3>2. w[k - 1] \in HostsFiles /\ NamesIn(w[k - 1]) = NamesIn(f) \cup Upto(k - 1)
            <4> HIDE DEF Upto, T
            <4> QED
                BY <1>3, <3>1, AttachNames
        <3>3. o[k] \notin Upto(k - 1)
            BY <1>1
        <3>4. w[k] = Attach(w[k - 1], addr, {o[k]})
            BY <1>2, <2>1, <3>2, <3>3, AddHostFresh
        <3>5. w[k] = Attach(f, addr, Upto(k - 1) \cup {o[k]})
            <4> DEFINE N == Upto(k - 1)
                       M == {o[k]}
            <4>1. N \in HostNames /\ M \in HostNames
                BY <1>3, <1>4, <3>1
            <4>2. w[k] = Attach(Attach(f, addr, N), addr, M)
                BY <3>1, <3>4
            <4> HIDE DEF N, M
            <4>3. w[k] = Attach(f, addr, N \cup M)
                BY <4>1, <4>2, AttachTwice
            <4> QED
                BY <4>3 DEF N, M
        <3>6. Upto(k - 1) \cup {o[k]} = Upto(k)
            <4>1. 1 .. k = 1 .. (k - 1) \cup {k}
                OBVIOUS
            <4> QED
                BY <4>1
        <3> HIDE DEF Upto
        <3>7. w[k] = Attach(f, addr, Upto(k))
            BY <3>5, <3>6
        <3> QED
            BY <2>4, <3>7
    <2> QED
        BY <2>2, <2>3
<1>7. Len(o) \in T
    <2> HIDE DEF T
    <2>1. 0 .. Len(o) \subseteq T
        BY <1>1, <1>5, <1>6, UpTo
    <2> QED
        BY <1>1, <2>1
<1>8. Len(o) # 0
    BY <1>1
<1> QED
    BY <1>1, <1>2, <1>7, <1>8

\* The lines after hosts have been attached to an address of one line.
LEMMA AttachLines ==
    ASSUME NEW f \in HostsFiles, NEW addr \in Addr, NEW N \in HostNames, AtMostOne(f, addr)
    PROVE  LET g    == Attach(f, addr, N)
               old  == {l \in Lines(f) : l.addr = addr}
               line == [addr |-> addr, names |-> (UNION {l.names : l \in old}) \cup N]
           IN  /\ g \in HostsFiles /\ Len(f.arr) <= Len(g.arr) /\ AtMostOne(g, addr)
               /\ Lines(g) = {l \in Lines(f) : l.addr # addr} \cup {line}
               /\ \A j \in 1 .. Len(f.arr) : g.arr[j] \in {f.arr[j], line}
<1> DEFINE g    == Attach(f, addr, N)
           old  == {l \in Lines(f) : l.addr = addr}
           line == [addr |-> addr, names |-> (UNION {l.names : l \in old}) \cup N]
<1>1. f.n \in Nat /\ Len(f.arr) \in Nat /\ \A j \in 1 .. f.n : j \in 1 .. Len(f.arr) /\ j # f.n + 1
    BY FileFacts
<1>2. CASE LinesAt(f, addr) # {}
    <2> DEFINE i == Min(LinesAt(f, addr))
    <2>1. /\ i \in 1 .. f.n /\ f.arr[i].addr = addr
          /\ g \in HostsFiles /\ g.n = f.n /\ Len(g.arr) = Len(f.arr)
          /\ \A j \in 1 .. Len(f.arr) :
                 g.arr[j] = IF j = i THEN [addr |-> addr, names |-> f.arr[i].names \cup N]
                                     ELSE f.arr[j]
        BY <1>2, AttachOld
    <2> HIDE DEF g, i
    <2>2. old = {f.arr[i]}
        BY <2>1 DEF Lines, AtMostOne
    <2>3. line = [addr |-> addr, names |-> f.arr[i].names \cup N]
        BY <2>2
    <2> HIDE DEF old, line
    <2>4. g.arr[i] = line /\ \A j \in 1 .. f.n : j # i => g.arr[j] = f.arr[j] /\ f.arr[j].addr # addr
        BY <1>1, <2>1, <2>3 DEF AtMostOne
    <2>5. line.addr = addr
        BY <2>3
    <2>6. \A l : l \in Lines(g) <=> (l \in Lines(f) /\ l.addr # addr) \/ l = line
        BY <2>1, <2>4, <2>5 DEF Lines
    <2>7. AtMostOne(g, addr)
        BY <2>1, <2>4 DEF AtMostOne
    <2>8. \A j \in 1 .. Len(f.arr) : g.arr[j] \in {f.arr[j], line}
        BY <2>1, <2>3
    <2>9. Lines(g) = {l \in Lines(f) : l.addr # addr} \cup {line}
        BY <2>6
    <2> QED
        BY <1>1, <2>1, <2>7, <2>8, <2>9 DEF g, old, line
<1>3. CASE LinesAt(f, addr) = {}
    <2>1. /\ g \in HostsFiles /\ g.n = f.n + 1
          /\ Len(g.arr) = IF f.n = Len(f.arr) THEN f.n + 1 ELSE Len(f.arr)
          /\ g.arr[f.n + 1] = [addr |-> addr, names |-> N]
          /\ \A j \in 1 .. Len(f.arr) : j # f.n + 1 => g.arr[j] = f.arr[j]
        BY <1>3, AttachNew
    <2> HIDE DEF g
    <2>2. \A j \in 1 .. f.n : f.arr[j].addr # addr
        BY <1>3 DEF LinesAt
    <2>3. line = [addr |-> addr, names |-> N]
        BY <2>2 DEF Lines
    <2> HIDE DEF old, line
    <2>4. 1 .. g.n = 1 .. f.n \cup {f.n + 1}
        BY <1>1, <2>1
    <2>5. g.arr[f.n + 1] = line /\ \A j \in 1 .. f.n : g.arr[j] = f.arr[j]
        BY <1>1, <2>1, <2>3
    <2>6. Lines(g) = {l \in Lines(f) : l.addr # addr} \cup {line}
        BY <2>2, <2>4, <2>5 DEF Lines
    <2>7. AtMostOne(g, addr)
        BY <2>2, <2>4, <2>5 DEF AtMostOne
    <2>8. \A j \in 1 .. Len(f.arr) : g.arr[j] \in {f.arr[j], line}
        BY <2>1, <2>5
    <2>9. Len(f.arr) <= Len(g.arr)
        BY <1>1, <2>1
    <2> QED
        BY <2>1, <2>6, <2>7, <2>8, <2>9 DEF g, old, line
<1> QED
    BY <1>2, <1>3

-----------------------------------------------------------------------------
(* ReplaceAddressForHost                                                   *)

\* With no line at addr there is nothing to remove.
LEMMA RemoveNothing ==
    ASSUME NEW f \in HostsFiles, NEW addr, \A l \in Lines(f) : l.addr # addr
    PROVE  RemoveAddress(f, addr) = f
<1> DEFINE g == RemoveAddress(f, addr)
<1>1. Rest(f, g, addr)
    BY RemoveAddressSpec
<1>2. \A j \in 1 .. f.n : f.arr[j].addr # addr
    BY DEF Lines
<1> HIDE DEF g
<1>3. g \in HostsFiles /\ f.n \in Nat /\ g.n \in Nat /\ g.n <= f.n /\ Len(g.arr) = Len(f.arr)
    BY <1>1, FileFacts DEF Rest
<1>4. \A i \in 1 .. f.n : i <= g.n /\ \A j \in 1 .. i : g.arr[j] = f.arr[j]
    <2>1. \A i \in 1 .. f.n : \A j \in 1 .. i : j \in 1 .. f.n
        BY <1>3
    <2> QED
        BY <1>1, <1>2, <2>1 DEF Rest
<1>5. f.n <= g.n
    BY <1>3, <1>4
<1>6. \A j \in 1 .. Len(f.arr) : j \in 1 .. f.n \/ j \in f.n + 1 .. Len(f.arr)
    BY <1>3
<1>7. \A j \in 1 .. f.n : g.arr[j] = f.arr[j]
    BY <1>3, <1>4
<1>8. \A j \in 1 .. Len(f.arr) : g.arr[j] = f.arr[j]
    BY <1>1, <1>6, <1>7 DEF Rest
<1>9. f.n = g.n
    BY <1>3, <1>5
<1>10. g = f
    BY <1>3, <1>8, <1>9, SameFile
<1> QED
    BY <1>10 DEF g

\* One round of its loop.
ReplaceStep(g, k, src, newAddr) ==
    IF src \in g.arr[k].names
    THEN AddHosts(RemoveAddress(g, g.arr[k].addr), newAddr, g.arr[k].names) ELSE g

\* The files the loop over f comes by.
Slotted(f) == {g \in HostsFiles : f.n <= Len(g.arr)}

\* Each round leaves a file with as many slots at least.
LEMMA ReplaceStepType ==
    ASSUME NEW f \in HostsFiles, NEW g \in Slotted(f), NEW k \in 1 .. f.n,
           NEW src, NEW newAddr \in Addr
    PROVE  ReplaceStep(g, k, src, newAddr) \in Slotted(f)
<1>1. g \in HostsFiles /\ f.n \in Nat /\ f.n <= Len(g.arr) /\ Len(g.arr) \in Nat
    BY FileFacts DEF Slotted
<1>2. k \in 1 .. Len(g.arr)
    BY <1>1
<1> DEFINE r == RemoveAddress(g, g.arr[k].addr)
<1>3. g.arr[k].names \in HostNames
    BY <1>1, <1>2, FileFacts
<1>4. r \in HostsFiles /\ Len(r.arr) = Len(g.arr)
    BY <1>1, RemoveAddressSpec DEF Rest
<1> HIDE DEF r
<1> DEFINE a == AddHosts(r, newAddr, g.arr[k].names)
<1>5. a \in HostsFiles /\ Len(r.arr) <= Len(a.arr)
    BY <1>3, <1>4, AddHostsNames
<1> HIDE DEF a
<1>6. a \in Slotted(f)
    BY <1>1, <1>4, <1>5, FileFacts DEF Slotted
<1> QED
    BY <1>6 DEF ReplaceStep, a, r

\* The rounds of ReplaceAddressForHost.
LEMMA ReplaceWalk ==
    ASSUME NEW f \in HostsFiles, NEW src, NEW dst, Lookup(f, dst) \in Addr
    PROVE  \E w : /\ w[0] = f
                  /\ \A k \in 1 .. f.n : w[k] = ReplaceStep(w[k - 1], k, src, Lookup(f, dst))
                  /\ ReplaceAddressForHost(f, src, dst) = w[f.n]
<1> DEFINE S(g, k) == ReplaceStep(g, k, src, Lookup(f, dst))
           G == [k \in 1 .. f.n |-> [g \in Slotted(f) |-> S(g, k)]]
           IsWalk(w) == w = [k \in 0 .. f.n |-> IF k = 0 THEN f ELSE S(w[k - 1], k)]
<1>0. f.n \in Nat /\ f \in Slotted(f)
    BY FileFacts DEF Slotted
<1>1. G \in [1 .. f.n -> [Slotted(f) -> Slotted(f)]]
    BY ReplaceStepType
<1>2. PICK v : v \in Walks(Slotted(f), f, f.n, G)
    <2> HIDE DEF G
    <2> DEFINE X == Slotted(f)
    <2>1. f \in X /\ f.n \in Nat /\ G \in [1 .. f.n -> [X -> X]]
        BY <1>0, <1>1
    <2> HIDE DEF X
    <2>2. Walks(X, f, f.n, G) # {}
        BY <2>1, WalkExists
    <2> QED
        BY <2>2 DEF X
<1>3. \A k \in 1 .. f.n : G[k][v[k - 1]] = S(v[k - 1], k)
    <2> SUFFICES ASSUME NEW k \in 1 .. f.n PROVE G[k][v[k - 1]] = S(v[k - 1], k)
        OBVIOUS
    <2>1. k - 1 \in 0 .. f.n /\ v[k - 1] \in Slotted(f)
        BY <1>0, <1>2 DEF Walks
    <2> QED
        BY <2>1
<1>4. IsWalk(v)
    <2> HIDE DEF G, S
    <2> QED
        BY <1>0, <1>2, <1>3 DEF Walks
<1> DEFINE w == CHOOSE w : IsWalk(w)
<1>5. IsWalk(w)
    BY <1>4
<1>6. ReplaceAddressForHost(f, src, dst) = w[f.n]
    BY DEF ReplaceAddressForHost, RangeLines, Walk, ReplaceStep
<1> HIDE DEF w
<1>7. w[0] = f /\ \A k \in 1 .. f.n : w[k] = S(w[k - 1], k)
    <2> HIDE DEF S
    <2> QED
        BY <1>0, <1>5
<1> QED
    BY <1>6, <1>7

\* What a host leads to is an address.
LEMMA FoundAddr ==
    ASSUME NEW f \in HostsFiles, NEW host, Lookup(f, host) # NoAddr
    PROVE  Lookup(f, host) \in Addr
<1>1. PICK i \in 1 .. f.n : Lookup(f, host) = f.arr[i].addr
    BY LookupFinds
<1>2. i \in 1 .. Len(f.arr)
    BY FileFacts
<1> QED
    BY <1>1, <1>2, FileFacts

\* ReplaceAddressForHost leaves a file.
LEMMA ReplaceType ==
    ASSUME NEW f \in HostsFiles, NEW src, NEW dst, Lookup(f, dst) # NoAddr
    PROVE  ReplaceAddressForHost(f, src, dst) \in HostsFiles
<1>1. Lookup(f, dst) \in Addr
    BY FoundAddr
<1>2. PICK w : /\ w[0] = f
               /\ \A k \in 1 .. f.n : w[k] = ReplaceStep(w[k - 1], k, src, Lookup(f, dst))
               /\ ReplaceAddressForHost(f, src, dst) = w[f.n]
    BY <1>1, ReplaceWalk
<1>3. f.n \in Nat /\ f \in Slotted(f)
    BY FileFacts DEF Slotted
<1> DEFINE T == {k \in 0 .. f.n : w[k] \in Slotted(f)}
<1>4. 0 \in T
    BY <1>2, <1>3
<1>5. ASSUME NEW k \in 1 .. f.n, k - 1 \in T PROVE k \in T
    BY <1>1, <1>2, <1>3, <1>5, ReplaceStepType
<1>6. f.n \in T
    <2> HIDE DEF T
    <2>1. 0 .. f.n \subseteq T
        BY <1>3, <1>4, <1>5, UpTo
    <2> QED
        BY <1>3, <2>1
<1> QED
    BY <1>2, <1>6 DEF Slotted

\* f has src in line s and dst in line d, with what Unshared says of the two.
Found(f, s, d, src, dst) ==
    /\ f \in HostsFiles /\ s \in 1 .. f.n /\ d \in 1 .. f.n
    /\ src \in f.arr[s].names /\ dst \in f.arr[d].names
    /\ \A j \in 1 .. f.n : j # d => f.arr[j].addr # f.arr[d].addr
    /\ \A j \in 1 .. f.n : j # s => f.arr[j].names \cap f.arr[s].names = {}
    /\ \A j \in 1 .. f.n : j # d => f.arr[j].names \cap f.arr[d].names = {}

\* What the lines of src and dst become, and the lines that stay.
Joined(f, s, d) == [addr |-> f.arr[d].addr, names |-> f.arr[s].names \cup f.arr[d].names]
Others(f, s, d) == {l \in Lines(f) : l.addr \notin {f.arr[s].addr, f.arr[d].addr}}

\* Where src has moved: its line and dst's are one.
Moved(f, g, s, d, src) ==
    /\ g \in Slotted(f)
    /\ Lines(g) = Others(f, s, d) \cup {Joined(f, s, d)}
    /\ \A j \in 1 .. f.n : src \in g.arr[j].names => g.arr[j] \in {Joined(f, s, d), f.arr[s]}

\* What the hosts of the two lines have to do with the others.
LEMMA OthersApart ==
    ASSUME NEW f, NEW s, NEW d, NEW src, NEW dst, Found(f, s, d, src, dst),
           NEW l \in Others(f, s, d)
    PROVE  l.names \cap Joined(f, s, d).names = {} /\ src \notin l.names
<1>1. PICK j \in 1 .. f.n : l = f.arr[j]
    BY DEF Others, Lines
<1>2. j # s /\ j # d
    BY <1>1 DEF Others
<1> QED
    BY <1>1, <1>2 DEF Found, Joined

\* The line they become, if they are not one already.
LEMMA JoinedType ==
    ASSUME NEW f, NEW s, NEW d, NEW src, NEW dst, Found(f, s, d, src, dst)
    PROVE  /\ f.arr[d].addr \in Addr /\ f.arr[s].addr \in Addr /\ f.arr[s].names \in HostNames
           /\ Joined(f, s, d).names \in HostNames /\ Joined(f, s, d).addr = f.arr[d].addr
           /\ src \in Joined(f, s, d).names /\ dst \in Joined(f, s, d).names
           /\ f.arr[d].addr = f.arr[s].addr => s = d /\ Joined(f, s, d) = f.arr[s]
<1>1. f \in HostsFiles /\ s \in 1 .. Len(f.arr) /\ d \in 1 .. Len(f.arr)
    BY FileFacts DEF Found
<1>2. /\ f.arr[d].addr \in Addr /\ f.arr[s].addr \in Addr
      /\ f.arr[s].names \in HostNames /\ f.arr[d].names \in HostNames
    BY <1>1, FileFacts
<1>3. f.arr[s].names \cup f.arr[d].names \in HostNames
    BY <1>2, FiniteUnion
<1>4. ASSUME f.arr[d].addr = f.arr[s].addr PROVE s = d /\ Joined(f, s, d) = f.arr[s]
    <2>1. s = d
        BY <1>4 DEF Found
    <2>2. f.arr[s] \in HostLine
        BY <1>1, FileFacts
    <2>3. f.arr[s] = [addr |-> f.arr[s].addr, names |-> f.arr[s].names]
        BY <2>2 DEF HostLine
    <2> QED
        BY <2>1, <2>3 DEF Joined
<1> QED
    BY <1>2, <1>3, <1>4 DEF Joined, Found

\* When the loop comes to the line with src, its hosts move.
LEMMA FirstMove ==
    ASSUME NEW f, NEW s, NEW d, NEW src, NEW dst, Found(f, s, d, src, dst)
    PROVE  Moved(f, ReplaceStep(f, s, src, f.arr[d].addr), s, d, src)
<1> DEFINE from  == f.arr[s].addr
           to    == f.arr[d].addr
           names == f.arr[s].names
           r     == RemoveAddress(f, from)
           g     == AddHosts(r, to, names)
<1>1. f \in HostsFiles /\ s \in 1 .. f.n /\ d \in 1 .. f.n /\ src \in names
    BY DEF Found
<1>2. to \in Addr /\ from \in Addr /\ names \in HostNames
    BY JoinedType
<1>3. f.n \in Nat /\ f.n <= Len(f.arr) /\ Len(f.arr) \in Nat
    BY <1>1, FileFacts
<1>4. ReplaceStep(f, s, src, to) = g
    BY <1>1 DEF ReplaceStep
<1>5. AtMostOne(f, to)
    BY DEF AtMostOne, Found
<1>6. Rest(f, r, from) /\ Lines(r) = {l \in Lines(f) : l.addr # from}
    BY <1>1, RemoveAddressSpec, RemoveAddressLines
<1>7. r \in HostsFiles /\ Len(r.arr) = Len(f.arr) /\ AtMostOne(r, to)
    BY <1>5, <1>6 DEF Rest
<1> HIDE DEF r
<1>8. names \cap NamesIn(r) = {}
    <2> SUFFICES ASSUME NEW l \in Lines(r) PROVE names \cap l.names = {}
        BY DEF NamesIn, Lines
    <2>1. PICK j \in 1 .. f.n : l = f.arr[j]
        BY <1>6 DEF Lines
    <2>2. j # s
        BY <1>6, <2>1
    <2> QED
        BY <2>1, <2>2 DEF Found
<1>9. g = Attach(r, to, names)
    <2> HIDE DEF names, to
    <2> QED
        BY <1>1, <1>2, <1>7, <1>8, AddHostsFresh
<1> DEFINE old  == {l \in Lines(r) : l.addr = to}
           line == [addr |-> to, names |-> (UNION {l.names : l \in old}) \cup names]
<1>10. /\ g \in HostsFiles /\ Len(r.arr) <= Len(g.arr)
       /\ Lines(g) = {l \in Lines(r) : l.addr # to} \cup {line}
       /\ \A j \in 1 .. Len(r.arr) : g.arr[j] \in {r.arr[j], line}
    <2> HIDE DEF names, to, g
    <2> QED
        BY <1>2, <1>7, <1>9, AttachLines
<1>11. line = Joined(f, s, d)
    <2>1. CASE from = to
        <3>1. old = {} /\ s = d
            BY <1>6, <2>1, JoinedType
        <3> QED
            BY <3>1 DEF Joined
    <2>2. CASE from # to
        <3>1. f.arr[d] \in Lines(r)
            BY <1>1, <1>6, <2>2 DEF Lines
        <3>2. old = {f.arr[d]}
            BY <1>6, <3>1 DEF Lines, Found
        <3>3. UNION {l.names : l \in old} = f.arr[d].names
            BY <3>2
        <3> QED
            BY <3>3 DEF Joined
    <2> QED
        BY <2>1, <2>2
<1> HIDE DEF line, old, g
<1>12. Lines(g) = Others(f, s, d) \cup {Joined(f, s, d)}
    BY <1>6, <1>10, <1>11 DEF Others
<1>13. ASSUME NEW j \in 1 .. f.n, src \in g.arr[j].names
       PROVE  g.arr[j] \in {Joined(f, s, d), f.arr[s]}
    <2>1. j \in 1 .. Len(r.arr)
        BY <1>3, <1>7
    <2>2. CASE g.arr[j] = line
        BY <1>11, <2>2
    <2>3. CASE g.arr[j] = r.arr[j]
        <3>1. PICK i \in 1 .. f.n : r.arr[j] = f.arr[i]
            BY <1>6 DEF Rest
        <3>2. i = s
            BY <1>1, <1>13, <2>3, <3>1 DEF Found
        <3> QED
            BY <2>3, <3>1, <3>2
    <2> QED
        BY <1>10, <2>1, <2>2, <2>3
<1>14. g \in Slotted(f)
    BY <1>3, <1>7, <1>10, FileFacts DEF Slotted
<1> QED
    BY <1>4, <1>12, <1>13, <1>14 DEF Moved

\* When it comes to a line with src again, that one is removed and put back, or
\* is an old copy of what has moved.
LEMMA MoveAgain ==
    ASSUME NEW f, NEW s, NEW d, NEW src, NEW dst, Found(f, s, d, src, dst),
           NEW g, Moved(f, g, s, d, src), NEW k \in 1 .. f.n
    PROVE  Moved(f, ReplaceStep(g, k, src, f.arr[d].addr), s, d, src)
<1> DEFINE to    == f.arr[d].addr
           line  == Joined(f, s, d)
           names == line.names
<1>1. /\ to \in Addr /\ f.arr[s].addr \in Addr /\ f.arr[s].names \in HostNames
      /\ names \in HostNames /\ line.addr = to /\ src \in names
      /\ line = [addr |-> to, names |-> names]
    BY JoinedType DEF Joined
<1>2. g \in HostsFiles /\ f.n <= Len(g.arr) /\ Lines(g) = Others(f, s, d) \cup {line}
    BY DEF Moved, Slotted
<1>3. /\ g.n \in Nat /\ Len(g.arr) \in Nat /\ g.n <= Len(g.arr)
      /\ f \in HostsFiles /\ f.n \in Nat
    BY <1>2, FileFacts DEF Found
<1>4. CASE src \notin g.arr[k].names
    BY <1>4 DEF ReplaceStep
<1>5. CASE src \in g.arr[k].names /\ g.arr[k] = line
    <2> DEFINE r == RemoveAddress(g, to)
               h == AddHosts(r, to, names)
    <2>1. ReplaceStep(g, k, src, to) = h
        BY <1>1, <1>5 DEF ReplaceStep
    <2>2. Rest(g, r, to) /\ Lines(r) = {l \in Lines(g) : l.addr # to}
        BY <1>2, RemoveAddressSpec, RemoveAddressLines
    <2> HIDE DEF r
    <2>3. r \in HostsFiles /\ Len(r.arr) = Len(g.arr)
        BY <2>2 DEF Rest
    <2>4. Lines(r) = Others(f, s, d)
        BY <1>1, <1>2, <2>2 DEF Others
    <2>5. names \cap NamesIn(r) = {}
        <3> SUFFICES ASSUME NEW l \in Lines(r) PROVE names \cap l.names = {}
            BY DEF NamesIn, Lines
        <3> QED
            BY <2>4, OthersApart
    <2>6. AtMostOne(r, to)
        BY <2>2 DEF AtMostOne, Lines
    <2> DEFINE old == {l \in Lines(r) : l.addr = to}
               new == [addr |-> to, names |-> (UNION {l.names : l \in old}) \cup names]
    <2>7. new = line
        <3>1. UNION {l.names : l \in old} = {}
            BY <2>2
        <3> QED
            BY <1>1, <3>1
    <2>8. h = Attach(r, to, names)
        <3> HIDE DEF names, to, line
        <3> QED
            BY <1>1, <2>3, <2>5, AddHostsFresh
    <2>9. /\ h \in HostsFiles /\ Len(r.arr) <= Len(h.arr)
          /\ Lines(h) = {l \in Lines(r) : l.addr # to} \cup {new}
          /\ \A j \in 1 .. Len(r.arr) : h.arr[j] \in {r.arr[j], new}
        <3> HIDE DEF names, to, line
        <3>0. r \in HostsFiles /\ to \in Addr /\ names \in HostNames /\ AtMostOne(r, to)
            BY <1>1, <2>3, <2>6
        <3> HIDE DEF h
        <3>1. LET u == Attach(r, to, names) IN
              /\ u \in HostsFiles /\ Len(r.arr) <= Len(u.arr)
              /\ Lines(u) = {l \in Lines(r) : l.addr # to} \cup {new}
              /\ \A j \in 1 .. Len(r.arr) : u.arr[j] \in {r.arr[j], new}
            BY <3>0, AttachLines
        <3> HIDE DEF h, new
        <3> QED
            BY <2>8, <3>1
    <2> HIDE DEF h, new, old
    <2>10. Lines(h) = Others(f, s, d) \cup {line}
        BY <2>2, <2>4, <2>7, <2>9
    <2>11. h \in Slotted(f)
        BY <1>2, <1>3, <2>3, <2>9, FileFacts DEF Slotted
    <2>12. ASSUME NEW j \in 1 .. f.n, src \in h.arr[j].names
           PROVE  h.arr[j] \in {line, f.arr[s]}
        <3>1. j \in 1 .. Len(r.arr)
            BY <1>2, <1>3, <2>3
        <3>2. CASE h.arr[j] = new
            BY <2>7, <3>2
        <3>3. CASE h.arr[j] = r.arr[j] /\ j <= g.n
            <4>1. PICK i \in 1 .. g.n : r.arr[j] = g.arr[i]
                BY <1>3, <2>2, <3>3 DEF Rest
            <4>2. h.arr[j] \in Others(f, s, d) \cup {line}
                BY <1>2, <3>3, <4>1 DEF Lines
            <4> QED
                BY <2>12, <4>2, OthersApart
        <3>4. CASE h.arr[j] = r.arr[j] /\ g.n < j
            <4>1. j \in g.n + 1 .. Len(g.arr)
                BY <1>2, <1>3, <3>4
            <4>2. h.arr[j] = g.arr[j]
                BY <2>2, <3>4, <4>1 DEF Rest
            <4> QED
                BY <2>12, <4>2 DEF Moved
        <3> QED
            BY <1>3, <2>9, <3>1, <3>2, <3>3, <3>4
    <2> QED
        BY <2>1, <2>10, <2>11, <2>12 DEF Moved
<1>6. CASE src \in g.arr[k].names /\ g.arr[k] # line
    <2>1. g.arr[k] = f.arr[s] /\ f.arr[s].addr # to
        BY <1>6, JoinedType DEF Moved
    <2>2. \A l \in Lines(g) : l.addr # f.arr[s].addr
        BY <1>1, <1>2, <2>1 DEF Others
    <2>3. RemoveAddress(g, f.arr[s].addr) = g
        BY <1>2, <2>2, RemoveNothing
    <2>4. ASSUME NEW h \in f.arr[s].names PROVE Lookup(g, h) = to
        <3>1. h \in names
            BY <2>4 DEF Joined
        <3>2. h \in NamesIn(g)
            <4>1. PICK i \in 1 .. g.n : g.arr[i] = line
                BY <1>2 DEF Lines
            <4> QED
                BY <3>1, <4>1 DEF NamesIn
        <3>3. PICK i \in 1 .. g.n : h \in g.arr[i].names /\ Lookup(g, h) = g.arr[i].addr
            BY <1>2, <3>2, LookupFinds
        <3>4. g.arr[i] \in Lines(g)
            BY DEF Lines
        <3>5. g.arr[i] = line
            BY <1>2, <3>1, <3>3, <3>4, OthersApart
        <3> QED
            BY <1>1, <3>3, <3>5
    <2>5. AddHosts(g, to, f.arr[s].names) = g
        BY <1>1, <1>2, <2>4, AddHostsThere
    <2>6. ReplaceStep(g, k, src, to) = g
        BY <1>6, <2>1, <2>3, <2>5 DEF ReplaceStep
    <2> QED
        BY <2>6
<1> QED
    BY <1>4, <1>5, <1>6

\* If no line has src, the loop changes nothing.
LEMMA ReplaceNothing ==
    ASSUME NEW f \in HostsFiles, NEW src, NEW dst, Lookup(f, dst) # NoAddr, src \notin NamesIn(f)
    PROVE  ReplaceAddressForHost(f, src, dst) = f
<1>1. Lookup(f, dst) \in Addr
    BY FoundAddr
<1>2. PICK w : /\ w[0] = f
               /\ \A k \in 1 .. f.n : w[k] = ReplaceStep(w[k - 1], k, src, Lookup(f, dst))
               /\ ReplaceAddressForHost(f, src, dst) = w[f.n]
    BY <1>1, ReplaceWalk
<1>3. f.n \in Nat
    BY FileFacts
<1> DEFINE T == {k \in 0 .. f.n : w[k] = f}
<1>4. 0 \in T
    BY <1>2, <1>3
<1>5. ASSUME NEW k \in 1 .. f.n, k - 1 \in T PROVE k \in T
    <2>1. w[k] = ReplaceStep(f, k, src, Lookup(f, dst)) /\ src \notin f.arr[k].names
        BY <1>2, <1>5 DEF NamesIn
    <2> QED
        BY <1>3, <2>1 DEF ReplaceStep
<1>6. f.n \in T
    <2> HIDE DEF T
    <2>1. 0 .. f.n \subseteq T
        BY <1>3, <1>4, <1>5, UpTo
    <2> QED
        BY <1>3, <2>1
<1> QED
    BY <1>2, <1>6

\* Unshared says which the lines of src and dst are.
LEMMA FoundLines ==
    ASSUME NEW f \in HostsFiles, NEW src, NEW dst, Unshared(f, src, dst),
           Lookup(f, dst) # NoAddr, src \in NamesIn(f)
    PROVE  \E s, d : /\ Found(f, s, d, src, dst)
                     /\ Lookup(f, src) = f.arr[s].addr /\ Lookup(f, dst) = f.arr[d].addr
<1>1. PICK s \in 1 .. f.n : src \in f.arr[s].names /\ Lookup(f, src) = f.arr[s].addr
    BY LookupFinds
<1>2. PICK d \in 1 .. f.n : dst \in f.arr[d].names /\ Lookup(f, dst) = f.arr[d].addr
    BY LookupFinds
<1>3. \A j \in 1 .. f.n : j # d => f.arr[j].addr # f.arr[d].addr
    BY <1>2 DEF Unshared
<1>4. \A j \in 1 .. f.n : j # s => f.arr[j].names \cap f.arr[s].names = {}
    BY <1>1 DEF Unshared
<1>5. \A j \in 1 .. f.n : j # d => f.arr[j].names \cap f.arr[d].names = {}
    BY <1>2 DEF Unshared
<1>6. Found(f, s, d, src, dst)
    BY <1>1, <1>2, <1>3, <1>4, <1>5 DEF Found
<1> QED
    BY <1>1, <1>2, <1>6

\* The loop leaves f alone up to the line of src, and moves it there.
LEMMA ReplaceMoves ==
    ASSUME NEW f, NEW s, NEW d, NEW src, NEW dst, Found(f, s, d, src, dst),
           Lookup(f, dst) = f.arr[d].addr
    PROVE  Moved(f, ReplaceAddressForHost(f, src, dst), s, d, src)
<1>1. f \in HostsFiles /\ s \in 1 .. f.n /\ f.n \in Nat /\ Lookup(f, dst) \in Addr
    BY FileFacts, JoinedType DEF Found
<1>2. PICK w : /\ w[0] = f
               /\ \A k \in 1 .. f.n : w[k] = ReplaceStep(w[k - 1], k, src, Lookup(f, dst))
               /\ ReplaceAddressForHost(f, src, dst) = w[f.n]
    BY <1>1, ReplaceWalk
<1> DEFINE T == {k \in 0 .. f.n : IF k < s THEN w[k] = f ELSE Moved(f, w[k], s, d, src)}
<1>3. 0 \in T
    BY <1>1, <1>2
<1>4. ASSUME NEW k \in 1 .. f.n, k - 1 \in T PROVE k \in T
    <2>1. w[k] = ReplaceStep(w[k - 1], k, src, f.arr[d].addr) /\ k \in 0 .. f.n
        BY <1>1, <1>2
    <2>2. CASE k < s
        <3>1. w[k - 1] = f
            BY <1>1, <1>4, <2>2
        <3>2. src \notin f.arr[k].names
            BY <1>1, <2>2 DEF Found
        <3>3. w[k] = f
            BY <2>1, <3>1, <3>2 DEF ReplaceStep
        <3> QED
            BY <2>1, <2>2, <3>3
    <2>3. CASE k = s
        <3>1. w[k - 1] = f
            BY <1>1, <1>4, <2>3
        <3>2. Moved(f, w[k], s, d, src)
            BY <2>1, <2>3, <3>1, FirstMove
        <3> QED
            BY <1>1, <2>1, <2>3, <3>2
    <2>4. CASE s < k
        <3>1. Moved(f, w[k - 1], s, d, src)
            BY <1>1, <1>4, <2>4
        <3>2. Moved(f, w[k], s, d, src)
            BY <2>1, <3>1, MoveAgain
        <3> QED
            BY <1>1, <2>1, <2>4, <3>2
    <2> QED
        BY <1>1, <2>2, <2>3, <2>4
<1>5. f.n \in T
    <2> HIDE DEF T
    <2>1. 0 .. f.n \subseteq T
        BY <1>1, <1>3, <1>4, UpTo
    <2> QED
        BY <1>1, <2>1
<1> QED
    BY <1>1, <1>2, <1>5

\* Where the hosts of the two lines lead afterwards.
LEMMA MovedLookup ==
    ASSUME NEW f, NEW s, NEW d, NEW src, NEW dst, Found(f, s, d, src, dst),
           NEW g, Moved(f, g, s, d, src), NEW h \in Joined(f, s, d).names
    PROVE  Lookup(g, h) = f.arr[d].addr
<1>1. g \in HostsFiles /\ Lines(g) = Others(f, s, d) \cup {Joined(f, s, d)}
    BY DEF Moved, Slotted
<1>2. h \in NamesIn(g)
    <2>1. PICK i \in 1 .. g.n : g.arr[i] = Joined(f, s, d)
        BY <1>1 DEF Lines
    <2> QED
        BY <2>1 DEF NamesIn
<1>3. PICK i \in 1 .. g.n : h \in g.arr[i].names /\ Lookup(g, h) = g.arr[i].addr
    BY <1>1, <1>2, LookupFinds
<1>4. g.arr[i] \in Lines(g)
    BY DEF Lines
<1>5. g.arr[i] = Joined(f, s, d)
    BY <1>1, <1>3, <1>4, OthersApart
<1> QED
    BY <1>3, <1>5, JoinedType

\* ReplaceAddressForHost on a file that shares no host of the two lines: their
\* hosts lead to where dst's led.
LEMMA ReplaceLookup ==
    ASSUME NEW f \in HostsFiles, NEW src, NEW dst, Unshared(f, src, dst),
           Lookup(f, dst) # NoAddr,
           NEW h \in {dst} \cup UNION {l.names : l \in {k \in Lines(f) : src \in k.names}}
    PROVE  Lookup(ReplaceAddressForHost(f, src, dst), h) = Lookup(f, dst)
<1>1. CASE src \notin NamesIn(f)
    <2>1. h = dst
        BY <1>1 DEF Lines, NamesIn
    <2> QED
        BY <1>1, <2>1, ReplaceNothing
<1>2. CASE src \in NamesIn(f)
    <2>1. PICK s, d : Found(f, s, d, src, dst) /\ Lookup(f, dst) = f.arr[d].addr
        BY <1>2, FoundLines
    <2>2. Moved(f, ReplaceAddressForHost(f, src, dst), s, d, src)
        BY <2>1, ReplaceMoves
    <2>3. h \in Joined(f, s, d).names
        <3>1. CASE h = dst
            BY <2>1, <3>1, JoinedType
        <3>2. CASE h # dst
            <4>1. PICK j \in 1 .. f.n : src \in f.arr[j].names /\ h \in f.arr[j].names
                BY <3>2 DEF Lines
            <4>2. j = s
                BY <2>1, <4>1 DEF Found
            <4> QED
                BY <4>1, <4>2 DEF Joined
        <3> QED
            BY <3>1, <3>2
    <2> QED
        BY <2>1, <2>2, <2>3, MovedLookup
<1> QED
    BY <1>1, <1>2

\* ... and which lines it leaves.
LEMMA ReplaceLines ==
    ASSUME NEW f \in HostsFiles, NEW src, NEW dst, Unshared(f, src, dst),
           Lookup(f, dst) # NoAddr
    PROVE  LET newAddr == Lookup(f, dst)
               taken   == {l \in Lines(f) : src \in l.names \/ l.addr = newAddr}
               away    == {newAddr, Lookup(f, src)}
           IN  Lines(ReplaceAddressForHost(f, src, dst)) =
                   {l \in Lines(f) : l.addr \notin away} \cup
                   {[addr |-> newAddr, names |-> UNION {l.names : l \in taken}]}
<1> DEFINE new   == Lookup(f, dst)
           taken == {l \in Lines(f) : src \in l.names \/ l.addr = new}
           away  == {new, Lookup(f, src)}
           line  == [addr |-> new, names |-> UNION {l.names : l \in taken}]
<1>1. CASE src \notin NamesIn(f)
    <2>1. PICK d \in 1 .. f.n : f.arr[d].addr = new
        BY LookupFinds
    <2>2. d \in 1 .. Len(f.arr)
        BY FileFacts
    <2>3. f.arr[d] \in HostLine
        BY <2>2, FileFacts
    <2>4. \A i \in 1 .. f.n : f.arr[i].addr = new => i = d
        BY <2>1 DEF Unshared
    <2>5. taken = {f.arr[d]}
        BY <1>1, <2>1, <2>4 DEF Lines, NamesIn
    <2>6. line = f.arr[d]
        <3>1. UNION {l.names : l \in taken} = f.arr[d].names
            BY <2>5
        <3> QED
            BY <2>1, <2>3, <3>1 DEF HostLine
    <2>7. Lookup(f, src) = NoAddr
        BY <1>1, LookupFinds
    <2>8. \A i \in 1 .. f.n : f.arr[i].addr # NoAddr
        <3> SUFFICES ASSUME NEW i \in 1 .. f.n PROVE f.arr[i].addr # NoAddr
            OBVIOUS
        <3>1. i \in 1 .. Len(f.arr)
            BY FileFacts
        <3> QED
            BY <3>1, FileFacts DEF Addr
    <2>9. \A l \in Lines(f) : l.addr \in away <=> l = f.arr[d]
        BY <2>1, <2>4, <2>7, <2>8 DEF Lines
    <2> HIDE DEF away, line
    <2>10. Lines(f) = {l \in Lines(f) : l.addr \notin away} \cup {line}
        BY <2>6, <2>9 DEF Lines
    <2> QED
        BY <1>1, <2>10, ReplaceNothing DEF away, line
<1>2. CASE src \in NamesIn(f)
    <2>1. PICK s, d : /\ Found(f, s, d, src, dst)
                      /\ Lookup(f, src) = f.arr[s].addr /\ new = f.arr[d].addr
        BY <1>2, FoundLines
    <2>2. /\ s \in 1 .. f.n /\ d \in 1 .. f.n
          /\ \A j \in 1 .. f.n : src \in f.arr[j].names <=> j = s
          /\ \A j \in 1 .. f.n : f.arr[j].addr = new <=> j = d
        BY <2>1 DEF Found
    <2> HIDE DEF new
    <2>3. taken = {f.arr[s], f.arr[d]}
        BY <2>2 DEF Lines
    <2> HIDE DEF taken
    <2>4. line = Joined(f, s, d)
        <3>1. UNION {l.names : l \in taken} = f.arr[s].names \cup f.arr[d].names
            BY <2>3
        <3> QED
            BY <2>1, <3>1 DEF Joined
    <2>5. {l \in Lines(f) : l.addr \notin away} = Others(f, s, d)
        BY <2>1 DEF Others
    <2>6. Lines(ReplaceAddressForHost(f, src, dst)) = Others(f, s, d) \cup {Joined(f, s, d)}
        <3>1. Moved(f, ReplaceAddressForHost(f, src, dst), s, d, src)
            BY <2>1, ReplaceMoves DEF new
        <3> QED
            BY <3>1 DEF Moved
    <2> QED
        BY <2>4, <2>5, <2>6 DEF new, taken
<1> QED
    BY <1>1, <1>2

-----------------------------------------------------------------------------
(* The hosts file of the program                                           *)

FlagTypes ==
    /\ phase \in {"new", "run", "gone"}
    /\ told \in {"no", "up", "shutdown"}
    /\ changed \in {"no", "yes", "unknown", "unsaved"}
    /\ {stale, killed, regDone, watchDone, clean} \subseteq BOOLEAN

\* No forward writes its line before the clean-up. Until the host has been
\* changed the server's forward has its line, unless it has gone; a process
\* that has panicked does no more.
HostsInv ==
    /\ FlagTypes
    /\ hosts \in HostsFiles
    /\ phase = "new" => listed = {}
    /\ changed = "unknown" => phase = "gone"
    /\ "dst" \in listed /\ changed = "no" => Dst \in NamesIn(hosts)
    /\ ListedServerIsFound

\* The files of the model are hosts files.
LEMMA InitHosts == Init => HostsInv
<1> SUFFICES ASSUME Init PROVE HostsInv
    OBVIOUS
<1>1. PICK s \in Files : hosts = OfLines(s)
    BY DEF Init
<1>2. s \in Seq(HostLine) /\ Len(s) \in Nat
    BY HostsAssumption
<1>3. hosts \in HostsFiles
    BY <1>1, <1>2 DEF OfLines, HostsFiles
<1> QED
    BY <1>3 DEF Init, HostsInv, FlagTypes, ListedServerIsFound

\* Steps that leave the file, its lines and the change alone.
LEMMA HostsKept ==
    ASSUME HostsInv, UNCHANGED <<hostVars, changed>>,
           phase' = phase \/ phase' = "gone",
           told' \in {"no", "up", "shutdown"},
           {stale, killed, regDone, watchDone, clean}' \subseteq BOOLEAN
    PROVE  HostsInv'
    BY DEF HostsInv, FlagTypes, hostVars, ListedServerIsFound

\* A forward that ends takes its own hosts, of which dst is none of src's.
LEMMA DropKeeps ==
    ASSUME SafetyInv, HostsInv, NEW who, DropLines(who)
    PROVE  /\ hosts' \in HostsFiles /\ listed' \subseteq listed
           /\ "dst" \in listed' /\ changed = "no" => Dst \in NamesIn(hosts')
<1> DEFINE gone  == listed \cap who
           names == UNION {LineOf(s).names : s \in gone}
           both  == SrcLine.names \cup DstLine.names
<1>1. listed' = listed \ who /\ hosts' = RemoveHosts(hosts, SetToSeq(names))
    BY DEF DropLines
<1>2. SrcLine.names \in HostNames /\ DstLine.names \in HostNames
    BY HostsAssumption DEF HostLine
<1>3. gone \subseteq {"src", "dst"}
    BY DEF SafetyInv, ForwardTypes
<1>4. names \subseteq both /\ ("dst" \notin gone => names \subseteq SrcLine.names)
    BY <1>3 DEF LineOf
<1>5. names \in HostNames
    <2>1. both \in HostNames
        BY <1>2, FiniteUnion
    <2> HIDE DEF names, both
    <2> QED
        BY <1>4, <2>1, FS_Subset DEF HostNames
<1>6. "dst" \in listed' => Dst \notin names
    BY <1>1, <1>4, HostsAssumption
<1> HIDE DEF names
<1>7. hosts' \in HostsFiles /\ NamesIn(hosts) \ names \subseteq NamesIn(hosts')
    BY <1>1, <1>5, RemoveHostsNames DEF HostsInv
<1> QED
    BY <1>1, <1>6, <1>7 DEF HostsInv

\* The steps in which a forward ends, alone or in a handler.
LEMMA HostsDropped ==
    ASSUME SafetyInv, HostsInv, NEW who, DropLines(who), phase # "gone", UNCHANGED <<phase, toldVars>>,
           {stale, killed, regDone, watchDone, clean}' \subseteq BOOLEAN
    PROVE  HostsInv'
<1>1. changed # "unknown"
    BY DEF HostsInv
<1> QED
    BY <1>1, DropKeeps DEF HostsInv, FlagTypes, toldVars, ListedServerIsFound

\* The first Pod of a forward brings its hosts.
LEMMA HostsListed ==
    ASSUME HostsInv, NEW s \in {"src", "dst"}, ListForward(s)
    PROVE  HostsInv'
<1> DEFINE line == LineOf(s)
<1>1. /\ phase = "run" /\ listed' = listed \cup {s}
      /\ hosts' = AddHosts(hosts, line.addr, line.names)
      /\ UNCHANGED <<phase, stale, killed, regDone, watchDone, clean, told, changed>>
    BY DEF ListForward, fwdVars, stopVars, toldVars
<1>2. line.addr \in Addr /\ line.names \in HostNames /\ (s = "dst" => Dst \in line.names)
    BY HostsAssumption DEF LineOf, HostLine
<1> HIDE DEF line
<1>3. hosts' \in HostsFiles /\ NamesIn(hosts) \cup line.names \subseteq NamesIn(hosts')
    BY <1>1, <1>2, AddHostsNames DEF HostsInv
<1>4. changed # "unknown"
    BY <1>1 DEF HostsInv
<1> QED
    BY <1>1, <1>2, <1>3, <1>4 DEF HostsInv, FlagTypes, ListedServerIsFound

\* Every step keeps the invariant.
LEMMA HostsStep == SafetyInv /\ HostsInv /\ [Next]_vars => HostsInv'
<1> SUFFICES ASSUME SafetyInv, HostsInv, [Next]_vars PROVE HostsInv'
    OBVIOUS
<1> USE DEF fwdVars, stopVars, hostVars, toldVars, stopUnchanged, waitUnchanged, handlerUnchanged
<1>1. CASE Start
    <2>1. hosts' \in HostsFiles
        <3>1. HostsCleanup(hosts) \in HostsFiles
            BY CleanupSpec DEF HostsInv, Cleaned
        <3> QED
            BY <1>1, <3>1 DEF Start, HostsInv
    <2> QED
        BY <1>1, <2>1 DEF Start, HostsInv, FlagTypes, ListedServerIsFound
<1>2. CASE Informing
    BY <1>2, HostsKept DEF Informing, HostsInv, FlagTypes
<1>3. CASE Handlers
    <2>1. CASE AddFunc \/ FinishUpdate
        BY <2>1, HostsKept DEF AddFunc, FinishUpdate, HostsInv, FlagTypes
    <2>2. CASE UpdateFunc
        BY <2>2, HostsDropped
        DEF UpdateFunc, Watching, DeleteServiceHandler, HostsInv, FlagTypes
    <2>3. CASE DeleteFunc
        <3>1. CASE DeleteServiceHandler
            BY <2>3, <3>1, HostsDropped
            DEF DeleteFunc, Watching, DeleteServiceHandler, HostsInv, FlagTypes
        <3>2. CASE stale' = (stale \/ fwd # 0) /\ UNCHANGED <<fwd, hostVars>>
            BY <2>3, <3>2, HostsKept DEF DeleteFunc, HostsInv, FlagTypes
        <3> QED
            BY <2>3, <3>1, <3>2 DEF DeleteFunc
    <2> QED
        BY <1>3, <2>1, <2>2, <2>3 DEF Handlers
<1>4. CASE Kill \/ WatchReturns \/ CleanExit \/ ProcessExit
    BY <1>4, HostsKept DEF Kill, WatchReturns, CleanExit, ProcessExit, HostsInv, FlagTypes
<1>5. CASE RegistryShutdown
    BY <1>5, HostsDropped DEF RegistryDone, RegistryShutdown, HostsInv, FlagTypes
<1>6. CASE Pods
    <2>1. PICK s \in {"src", "dst"} : ListForward(s) \/ UnlistForward(s)
        BY <1>6 DEF Pods
    <2>2. CASE ListForward(s)
        BY <2>2, HostsListed
    <2>3. CASE UnlistForward(s)
        BY <2>3, HostsDropped DEF UnlistForward, HostsInv, FlagTypes
    <2> QED
        BY <2>1, <2>2, <2>3
<1>7. CASE ServerUp \/ WaitInterrupted
    BY <1>7, HostsKept DEF ServerUp, WaitInterrupted, HostsInv, FlagTypes
<1>8. CASE ChangeHost
    <2>1. hosts' \in HostsFiles
        BY <1>8, ReplaceType DEF ChangeHost, HostsInv
    <2> QED
        BY <1>8, <2>1 DEF ChangeHost, HostsInv, FlagTypes, ListedServerIsFound
<1>9. CASE ChangeHostPanics
    <2>1. changed' = "unknown" => Dst \notin NamesIn(hosts)
        BY <1>9, LookupFinds DEF ChangeHostPanics, HostsInv
    <2> QED
        BY <1>9, <2>1 DEF ChangeHostPanics, HostsInv, FlagTypes, ListedServerIsFound
<1>10. CASE UNCHANGED vars
    BY <1>10, HostsKept DEF vars, HostsInv, FlagTypes
<1> QED
    BY <1>1, <1>2, <1>3, <1>4, <1>5, <1>6, <1>7, <1>8, <1>9, <1>10 DEF Next, Shutdown, Finished

\* Only ChangeHost changes the host of the service.
LEMMA OnlyChangeHost ==
    ASSUME HostsInv, [Next]_vars, changed = "no", changed' = "yes"
    PROVE  Lookup(hosts, Dst) # NoAddr /\ hosts' = ReplaceAddressForHost(hosts, Src, Dst)
<1>1. ChangeHost
    BY DEF Next, Start, Informing, Handlers, AddFunc, DeleteFunc, UpdateFunc, FinishUpdate,
           Pods, ListForward, UnlistForward, toldVars, Kill, Shutdown, RegistryDone, RegistryShutdown, WatchReturns, CleanExit, ProcessExit, ServerUp,
           WaitInterrupted, ChangeHostPanics, Finished, vars, hostVars, stopUnchanged,
           waitUnchanged, handlerUnchanged
<1> QED
    BY <1>1 DEF ChangeHost

\* Only Start brings the program from its beginning to its run.
LEMMA OnlyStart ==
    ASSUME HostsInv, [Next]_vars, phase = "new", phase' = "run"
    PROVE  Start
    BY DEF Next, Informing, Handlers, AddFunc, DeleteFunc, UpdateFunc, FinishUpdate, Watching,
           Pods, ListForward, UnlistForward, Kill, Shutdown, RegistryDone, RegistryShutdown, WatchReturns, CleanExit, ProcessExit, ServerUp,
           WaitInterrupted, ChangeHost, ChangeHostPanics, Finished, vars

-----------------------------------------------------------------------------
(* The theorems                                                            *)

\* The inductive invariant of the forwarding.
THEOREM SafetyInvariant == Spec => []SafetyInv
    BY InitSafe, SafetyStep, PTL DEF Spec

\* With all events handled, the registry has the service as it is now, or the
\* stale forward of one whose deletion came as a tombstone.
THEOREM ForwardCorrect == Spec => []ForwardIsCurrent
<1>1. ASSUME SafetyInv, ~killed, linked, wire = <<>>, notes = <<>>, adding = 0
      PROVE  fwd = Wanted(object) \/ stale
    <2>1. Handled = object
        BY <1>1 DEF SafetyInv, InformerInv, LinkInv, Handled
    <2> QED
        BY <1>1, <2>1 DEF SafetyInv, MadeInv, Made
<1>2. SafetyInv => ForwardIsCurrent
    BY <1>1 DEF ForwardIsCurrent
<1> QED
    BY SafetyInvariant, <1>2, PTL

\* No forward nor line of one is left at a clean exit, and none comes after it.
THEOREM CleanExitFinal == Spec => []NothingAfterCleanExit
<1>1. SafetyInv => NothingAfterCleanExit
    BY DEF SafetyInv, StopInv, NothingAfterCleanExit
<1> QED
    BY SafetyInvariant, <1>1, PTL

\* The inductive invariant of the hosts file.
THEOREM HostsInvariant == Spec => []HostsInv
    BY InitHosts, HostsStep, SafetyInvariant, PTL DEF Spec

\* Every variable keeps its type, for any services and hosts files.
THEOREM TypeCorrect == Spec => []TypeOK
<1>1. SafetyInv /\ HostsInv => TypeOK
    BY DEF SafetyInv, InformerInv, ForwardTypes, HostsInv, FlagTypes, TypeOK
<1> QED
    BY SafetyInvariant, HostsInvariant, <1>1, PTL

\* ChangeHostToKubeTunnel finds the server's host as long as the server's
\* forward has its line, whatever the file holds and the other forward does.
THEOREM ServerFound == Spec => []ListedServerIsFound
<1>1. HostsInv => ListedServerIsFound
    BY DEF HostsInv
<1> QED
    BY HostsInvariant, <1>1, PTL

\* HostsCleanup adds no line and removes lines of kubetunnel addresses only,
\* whatever the file.
THEOREM CleanupCorrect == Spec => CleanupSparesOthers
<1> DEFINE Spares ==
        /\ Lines(hosts') \subseteq Lines(hosts)
        /\ \A line \in Lines(hosts) \ Lines(hosts') :
               \E tun \in Lines(hosts) : TunnelLine(tun) /\ tun.addr = line.addr
<1>1. HostsInv /\ [Next]_vars => [phase = "new" /\ phase' = "run" => Spares]_vars
    <2> SUFFICES ASSUME HostsInv, [Next]_vars, phase = "new", phase' = "run" PROVE Spares
        OBVIOUS
    <2>1. hosts \in HostsFiles /\ hosts' = HostsCleanup(hosts)
        BY OnlyStart DEF HostsInv, Start
    <2>2. Cleaned(hosts, hosts')
        BY <2>1, CleanupSpec
    <2>3. Lines(hosts') \subseteq Lines(hosts)
        <3>1. /\ hosts'.n \in Nat /\ hosts.n \in Nat /\ hosts'.n <= hosts.n
              /\ \A j \in 1 .. hosts.n : \E i \in 1 .. hosts.n : hosts'.arr[j] = hosts.arr[i]
            BY <2>1, <2>2, FileFacts DEF Cleaned
        <3>2. \A j \in 1 .. hosts'.n : \E i \in 1 .. hosts.n : hosts'.arr[j] = hosts.arr[i]
            BY <3>1
        <3> QED
            BY <3>2 DEF Lines
    <2> QED
        BY <2>2, <2>3 DEF Cleaned
<1> QED
    BY HostsInvariant, <1>1, PTL DEF Spec, CleanupSparesOthers

\* The hosts of the service's line lead to its server once they have been
\* changed, in any file that shares none of them.
THEOREM SrcMoves == Spec => SrcFollowsDst
<1> DEFINE Follow ==
        \A h \in {Dst} \cup UNION {l.names : l \in {k \in Lines(hosts) : Src \in k.names}} :
            Lookup(hosts', h) = Lookup(hosts, Dst)
<1>1. HostsInv /\ [Next]_vars => [Changing => Follow]_vars
    <2> SUFFICES ASSUME HostsInv, [Next]_vars, Changing PROVE Follow
        OBVIOUS
    <2>1. Lookup(hosts, Dst) # NoAddr /\ hosts' = ReplaceAddressForHost(hosts, Src, Dst)
        BY OnlyChangeHost DEF Changing
    <2> QED
        BY <2>1, ReplaceLookup DEF HostsInv, Changing
<1> QED
    BY HostsInvariant, <1>1, PTL DEF Spec, SrcFollowsDst

\* And the other lines stay as they are.
THEOREM OthersStay == Spec => OthersKept
<1> DEFINE Kept ==
        LET newAddr == Lookup(hosts, Dst)
            taken   == {l \in Lines(hosts) : Src \in l.names \/ l.addr = newAddr}
            away    == {newAddr, Lookup(hosts, Src)}
        IN  Lines(hosts') = {l \in Lines(hosts) : l.addr \notin away} \cup
                            {[addr |-> newAddr, names |-> UNION {l.names : l \in taken}]}
<1>1. HostsInv /\ [Next]_vars => [Changing => Kept]_vars
    <2> SUFFICES ASSUME HostsInv, [Next]_vars, Changing PROVE Kept
        OBVIOUS
    <2>1. Lookup(hosts, Dst) # NoAddr /\ hosts' = ReplaceAddressForHost(hosts, Src, Dst)
        BY OnlyChangeHost DEF Changing
    <2> QED
        BY <2>1, ReplaceLines DEF HostsInv, Changing
<1> QED
    BY HostsInvariant, <1>1, PTL DEF Spec, OthersKept
=============================================================================
