--------------------------- MODULE ServiceForward ---------------------------
(***************************************************************************)
(* Service forwarding (kubefwd/kubefwd.go): Execute with its goroutines,    *)
(* the handlers of the service informer for one service, the wait for the   *)
(* kubetunnel server, the kill signal, and the hosts file that is cleaned   *)
(* before and changed after it (frp/utils/tcphelper.go, frp/manager.go).    *)
(* The informer and kubefwd's registry of forwards (fwdsvcregistry) are     *)
(* external: the registry keeps one forward per service name, takes none    *)
(* after the kill signal and shuts all down then.  A forward writes its     *)
(* line into the hosts file once it has Pods and takes it out when it ends. *)
(***************************************************************************)
EXTENDS Informer, HostsFile

CONSTANTS
    Services,             \* the services considered: [tunnel, selector]
    Files,                \* the hosts files considered, as sequences of lines
    Src, Dst,             \* the service's host and its kubetunnel server's
    SrcLine, DstLine      \* the lines kubefwd writes for them

ASSUME ServicesAssumption ==
    Services \subseteq [tunnel : BOOLEAN,
                        selector : [1 .. MaxVersion -> {"pods", "agent", "none"}]]

ASSUME HostsAssumption ==
    /\ Files \subseteq Seq(HostLine)
    /\ {SrcLine, DstLine} \subseteq HostLine
    /\ Dst \in DstLine.names /\ Dst \notin SrcLine.names

VARIABLES
    service,      \* tunnel: its name starts with "kubetunnel"; selector of each version
    phase,        \* Execute: "new", "run", or the process is "gone"
    fwd,          \* version in the registry of forwards, 0: none
    adding,       \* version UpdateServiceHandler has still to add, 0: none
    stale,        \* the deletion of what is forwarded has been dropped
    killed,       \* the kill signal has been given
    regDone,      \* fwdsvcregistry.Done() is closed
    watchDone,    \* watchServiceEvents has returned
    clean,        \* "Clean exit" has been reached
    told,         \* what ended the wait for the server: "no", "up", "shutdown"
    listed,       \* whose forwards have their line in the file: "src", "dst"
    hosts,        \* the hosts file in memory
    changed       \* ChangeHostToKubeTunnel: "no", "yes", or why it panicked

fwdVars  == <<fwd, adding, stale>>
stopVars == <<killed, regDone, watchDone, clean>>
hostVars == <<listed, hosts>>
toldVars == <<told, changed>>
vars == <<informerVars, service, phase, fwdVars, stopVars, hostVars, toldVars>>

Init ==
    /\ InformerInit /\ listening = TRUE
    /\ service \in Services
    /\ phase = "new"
    /\ fwd = 0 /\ adding = 0 /\ stale = FALSE
    /\ killed = FALSE /\ regDone = FALSE /\ watchDone = FALSE /\ clean = FALSE
    /\ told = "no" /\ changed = "no"
    /\ listed = {}
    /\ hosts \in {OfLines(s) : s \in Files}

\* Execute up to the start of its goroutines; a hosts file that cannot be read
\* or backed up ends the process.
Start ==
    /\ phase = "new"
    /\ \/ phase' = "run" /\ hosts' = HostsCleanup(hosts)
       \/ phase' = "gone" /\ UNCHANGED hosts
    /\ UNCHANGED <<informerVars, service, fwdVars, stopVars, listed, toldVars>>

-----------------------------------------------------------------------------
(* The lines of the forwards of the service and of its server, of which the *)
(* one is modelled here and the other another service's                     *)

Own == IF service.tunnel THEN "dst" ELSE "src"
LineOf(s) == IF s = "src" THEN SrcLine ELSE DstLine

DropLines(who) ==
    /\ listed' = listed \ who
    /\ \E order \in {SetToSeq(UNION {LineOf(s).names : s \in listed \cap who})} :
           hosts' = RemoveHosts(hosts, order)

\* The forward's first Pod is there, or its last one goes.
ListForward(s) ==
    /\ phase = "run" /\ ~regDone /\ s \notin listed
    /\ s = Own => fwd # 0
    /\ listed' = listed \cup {s}
    /\ hosts' = AddHosts(hosts, LineOf(s).addr, LineOf(s).names)
    /\ UNCHANGED <<informerVars, service, phase, fwdVars, stopVars, toldVars>>

UnlistForward(s) ==
    /\ phase = "run" /\ s \in listed
    /\ DropLines({s})
    /\ UNCHANGED <<informerVars, service, phase, fwdVars, stopVars, toldVars>>

Pods == \E s \in {"src", "dst"} : ListForward(s) \/ UnlistForward(s)

-----------------------------------------------------------------------------
(* The handlers, run one after the other by the informer's goroutine       *)

Watching == phase = "run" /\ ~watchDone /\ adding = 0

\* The requirements on the Pods a forward goes to. The test for a service
\* without selector comes after the requirement that keeps agents out.
PodSelector(v) ==
    ({service.selector[v]} \ {"none"}) \cup
    (IF service.selector[v] # "agent" /\ ~service.tunnel THEN {"not-agent"} ELSE {})
Skipped(v) == PodSelector(v) = {}

\* AddServiceHandler and fwdsvcregistry.Add, which keeps what it has.
AddServiceHandler(v) ==
    fwd' = IF Skipped(v) \/ killed \/ fwd # 0 THEN fwd ELSE v

\* DeleteServiceHandler and fwdsvcregistry.RemoveByName, which ends the forward.
DeleteServiceHandler == fwd' = 0 /\ stale' = FALSE /\ DropLines({Own})

handlerUnchanged == UNCHANGED <<service, phase, stopVars, toldVars>>

AddFunc ==
    /\ Watching /\ NextIs("added") /\ Take
    /\ AddServiceHandler(Head(notes).new)
    /\ UNCHANGED <<adding, stale, hostVars>> /\ handlerUnchanged

\* A tombstone is no *v1.Service: nothing is removed.
DeleteFunc ==
    /\ Watching
    /\ \/ NextIs("deleted") /\ Take /\ DeleteServiceHandler
       \/ NextIs("tombstone") /\ Take /\ stale' = (stale \/ fwd # 0)
          /\ UNCHANGED <<fwd, hostVars>>
    /\ UNCHANGED adding /\ handlerUnchanged

\* Mutant: the old object is added again.
UpdateFunc_Old ==
    /\ Watching /\ NextIs("updated") /\ Take
    /\ DeleteServiceHandler
    /\ adding' = Head(notes).old
    /\ handlerUnchanged

\* UpdateServiceHandler deletes ...
UpdateFunc ==
    /\ Watching /\ NextIs("updated") /\ Take
    /\ DeleteServiceHandler
    /\ adding' = Head(notes).new
    /\ handlerUnchanged

\* ... and then adds.
FinishUpdate ==
    /\ phase = "run" /\ adding # 0
    /\ AddServiceHandler(adding)
    /\ adding' = 0
    /\ UNCHANGED <<informerVars, stale, hostVars>> /\ handlerUnchanged

-----------------------------------------------------------------------------
(* The kill signal and the two waits of the shutdown                       *)

stopUnchanged == UNCHANGED <<informerVars, service, adding, toldVars>>

Kill ==
    /\ phase # "gone" /\ ~killed
    /\ killed' = TRUE
    /\ UNCHANGED <<phase, fwd, stale, regDone, watchDone, clean, hostVars>> /\ stopUnchanged

RegistryDone == phase = "run" /\ killed /\ ~regDone /\ regDone' = TRUE

\* The registry ends its forwards, which takes their lines out, and is done.
RegistryShutdown ==
    /\ RegistryDone
    /\ fwd' = 0 /\ stale' = FALSE /\ DropLines({"src", "dst"})
    /\ UNCHANGED <<phase, killed, watchDone, clean>> /\ stopUnchanged

\* controller.Run returns when its queue is drained.
WatchReturns ==
    /\ Watching /\ killed /\ notes = <<>>
    /\ watchDone' = TRUE
    /\ UNCHANGED <<phase, fwd, stale, killed, regDone, clean, hostVars>> /\ stopUnchanged

\* Mutant: the registry is not waited for.
CleanExit_NoRegistry ==
    /\ phase = "run" /\ watchDone /\ ~clean
    /\ clean' = TRUE
    /\ UNCHANGED <<phase, fwd, stale, killed, regDone, watchDone, hostVars>> /\ stopUnchanged

\* nsWatchesDone.Wait(); <-fwdsvcregistry.Done().
CleanExit ==
    /\ phase = "run" /\ watchDone /\ regDone /\ ~clean
    /\ clean' = TRUE
    /\ UNCHANGED <<phase, fwd, stale, killed, regDone, watchDone, hostVars>> /\ stopUnchanged

\* killsignal ends the process a second after the signal, come what may.
ProcessExit ==
    /\ phase # "gone" /\ killed
    /\ phase' = "gone"
    /\ UNCHANGED <<fwd, stale, stopVars, hostVars>> /\ stopUnchanged

-----------------------------------------------------------------------------
(* The wait for the server, and what the caller does when it is told       *)

waitUnchanged == UNCHANGED <<informerVars, service, fwdVars, stopVars, listed>>

\* IsAvailable connects to the server by its name, which the file on disk or the
\* DNS may lead there too; channel <- nil.
ServerUp ==
    /\ phase = "run" /\ told = "no"
    /\ told' = "up"
    /\ UNCHANGED <<phase, hosts, changed>> /\ waitUnchanged

\* Mutant: the loop never looks at done.
WaitInterrupted_Never == FALSE /\ UNCHANGED vars

\* IsChannelClosed(done): break; channel <- nil as if the server were up.
WaitInterrupted ==
    /\ phase = "run" /\ told = "no" /\ regDone
    /\ told' = "shutdown"
    /\ UNCHANGED <<phase, hosts, changed>> /\ waitUnchanged

\* ChangeHostToKubeTunnel, once told.
ChangeHost ==
    /\ phase = "run" /\ told # "no" /\ changed = "no"
    /\ Lookup(hosts, Dst) # NoAddr
    /\ changed' = "yes" /\ hosts' = ReplaceAddressForHost(hosts, Src, Dst)
    /\ UNCHANGED <<phase, told>> /\ waitUnchanged

\* Mutant: the service's host is looked up.
ChangeHostPanics_Src ==
    /\ phase = "run" /\ told # "no" /\ changed = "no"
    /\ \/ Lookup(hosts, Src) = NoAddr /\ changed' = "unknown"
       \/ {Src, Dst} \subseteq NamesIn(hosts) /\ changed' = "unsaved"
    /\ phase' = "gone"
    /\ UNCHANGED <<told, hosts>> /\ waitUnchanged

\* It panics if dst has no line, and if the file cannot be saved.
ChangeHostPanics ==
    /\ phase = "run" /\ told # "no" /\ changed = "no"
    /\ \/ Lookup(hosts, Dst) = NoAddr /\ changed' = "unknown"
       \/ {Src, Dst} \subseteq NamesIn(hosts) /\ changed' = "unsaved"
    /\ phase' = "gone"
    /\ UNCHANGED <<told, hosts>> /\ waitUnchanged

-----------------------------------------------------------------------------
\* No list or watch is begun after the kill signal.
Informing ==
    /\ phase = "run" /\ ~watchDone
    /\ ServerChange \/ Receive \/ Gap \/ (Relist /\ ~killed)
    /\ UNCHANGED <<service, phase, fwdVars, stopVars, hostVars, toldVars>>

Handlers == AddFunc \/ DeleteFunc \/ UpdateFunc \/ FinishUpdate
Shutdown == RegistryShutdown \/ WatchReturns \/ CleanExit

Finished == phase = "gone" /\ UNCHANGED vars

Next ==
    \/ Start \/ Informing \/ Handlers \/ Pods
    \/ Kill \/ Shutdown \/ ProcessExit
    \/ ServerUp \/ WaitInterrupted \/ ChangeHost \/ ChangeHostPanics
    \/ Finished

Spec == Init /\ [][Next]_vars

\* Goroutines run; the cluster, the operator and the server owe nothing. The
\* first two are the handlers and RegistryShutdown, by what only they do and can
\* do whenever it is their turn.
Fairness ==
    /\ WF_informerVars(Watching /\ notes # <<>> /\ Take) /\ WF_regDone(RegistryDone)
    /\ WF_vars(FinishUpdate) /\ WF_vars(WatchReturns) /\ WF_vars(CleanExit)
    /\ WF_vars(WaitInterrupted) /\ WF_vars(Informing /\ (Receive \/ Relist))

FairSpec == Spec /\ Fairness

-----------------------------------------------------------------------------
(* Properties                                                              *)

TypeOK ==
    /\ InformerTypeOK
    /\ fwd \in Version /\ adding \in Version
    /\ phase \in {"new", "run", "gone"}
    /\ told \in {"no", "up", "shutdown"} /\ changed \in {"no", "yes", "unknown", "unsaved"}
    /\ hosts \in HostsFiles /\ listed \subseteq {"src", "dst"}
    /\ {stale, killed, regDone, watchDone, clean} \subseteq BOOLEAN
    /\ adding # 0 => fwd = 0

\* A version that is forwarded: only a kubetunnel service can be without
\* selector and be skipped for it.
Wanted(v) == IF v = 0 \/ (service.tunnel /\ service.selector[v] = "none") THEN 0 ELSE v

\* When every event of the service informer has been handled, what the
\* handlers of kubefwd.go have left in the registry is the service as it is
\* now, unless the deletion of an earlier one came as a tombstone.
ForwardIsCurrent ==
    phase = "run" /\ ~killed /\ linked /\ wire = <<>> /\ notes = <<>> /\ adding = 0
    => fwd = Wanted(object) \/ stale

\* "Clean exit" (Execute) is reached only when no forward is left, nor a line
\* of one in the hosts file, and none comes after it, although an update may be
\* between its two halves, or a forward be waiting for Pods, when the signal
\* comes.
NothingAfterCleanExit == clean => fwd = 0 /\ listed = {}

\* ChangeHostToKubeTunnel panics over a host that it does not find only if the
\* server's forward has no line at that moment: as long as it has one, neither
\* the cleanup nor the other forward's coming, going and being updated can
\* take the host away.
ListedServerIsFound == changed = "unknown" => "dst" \notin listed

\* After the kill signal, or after their start if that is later, Execute's
\* goroutines come to their end, unless the process ends first: the handlers
\* finish, both waits of "Clean exit" are over, and WaitUntilKubeTunnelIsUp does
\* not wait for a server any more.
ShutdownCompletes ==
    killed /\ phase = "run" ~> phase = "gone" \/ (clean /\ told # "no")

Lines(f) == {f.arr[i] : i \in 1 .. f.n}
TunnelLine(line) == line.names \cap Slugged # {}

\* HostsCleanup, which edits the array it ranges over, adds nothing and takes
\* only lines of an address that a kubetunnel host has.
CleanupSparesOthers ==
    [][phase = "new" /\ phase' = "run" =>
        /\ Lines(hosts') \subseteq Lines(hosts)
        /\ \A line \in Lines(hosts) \ Lines(hosts') :
               \E tun \in Lines(hosts) : TunnelLine(tun) /\ tun.addr = line.addr]_vars

\* "cleaning up all entries containing .kubetunnel host" (tcphelper.go:59): as
\* long as no forward has written a line and none has been changed, none with
\* a kubetunnel host is left.
CleanupRemovesAll ==
    phase = "run" /\ listed = {} /\ changed = "no" =>
        \A line \in Lines(hosts) : ~TunnelLine(line)

\* One line has the address of dst, and that line and the one of src share no
\* host with another.
Unshared(f, src, dst) ==
    \A i, j \in 1 .. f.n :
        /\ f.arr[i].addr = Lookup(f, dst) /\ f.arr[j].addr = Lookup(f, dst) => i = j
        /\ i # j /\ (src \in f.arr[i].names \/ f.arr[i].addr = Lookup(f, dst))
            => f.arr[i].names \cap f.arr[j].names = {}

Changing == changed = "no" /\ changed' = "yes" /\ Unshared(hosts, Src, Dst)

\* After ReplaceAddressForHost the service's host, and all hosts of its line,
\* lead to where its kubetunnel server's host led, and so does that one still.
SrcFollowsDst ==
    [][Changing =>
        \A h \in {Dst} \cup UNION {l.names : l \in {k \in Lines(hosts) : Src \in k.names}} :
            Lookup(hosts', h) = Lookup(hosts, Dst)]_vars

\* ReplaceAddressForHost leaves the other lines as they are, but for further
\* lines of src's address, which RemoveAddress drops, and the server's, which
\* gets the hosts of src's line and no others.
OthersKept ==
    [][Changing =>
        LET newAddr == Lookup(hosts, Dst)
            taken   == {l \in Lines(hosts) : Src \in l.names \/ l.addr = newAddr}
            away    == {newAddr, Lookup(hosts, Src)}
        IN  Lines(hosts') = {l \in Lines(hosts) : l.addr \notin away} \cup
                            {[addr |-> newAddr, names |-> UNION {l.names : l \in taken}]}]_vars
=============================================================================
