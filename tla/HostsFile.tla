------------------------------ MODULE HostsFile ------------------------------
(***************************************************************************)
(* The edits of the hosts file in frp/utils/tcphelper.go.  A file is its    *)
(* lines and how many of them count: the txeh library removes a line by      *)
(* moving the later ones up in the same array, and both loops range over    *)
(* the array as long as it was when they began.                             *)
(* Lookup, RemoveLine, RemoveAddress, AddHosts and RemoveHosts are txeh's.  *)
(***************************************************************************)
EXTENDS Naturals, Sequences, FiniteSetsExt, SequencesExt

CONSTANT Slugged        \* the names that contain "kubetunnel"

NoAddr == "none"

Addr == STRING \ {NoAddr}
HostNames == {s \in SUBSET STRING : IsFiniteSet(s)}
HostLine == [addr : Addr, names : HostNames]
HostsFiles == {f \in [arr : Seq(HostLine), n : Nat] : f.n <= Len(f.arr)}

OfLines(s) == [arr |-> s, n |-> Len(s)]
NamesIn(f) == UNION {f.arr[i].names : i \in 1 .. f.n}
LinesWith(f, host) == {i \in 1 .. f.n : host \in f.arr[i].names}
LinesAt(f, addr) == {i \in 1 .. f.n : f.arr[i].addr = addr}

\* What Step makes of start in rounds 1 .. last.
Walk(start, last, Step(_, _)) ==
    LET w[k \in 0 .. last] == IF k = 0 THEN start ELSE Step(w[k - 1], k)
    IN  w[last]

Lookup(f, host) ==
    IF LinesWith(f, host) = {} THEN NoAddr ELSE f.arr[Min(LinesWith(f, host))].addr

\* The last slot in use keeps its line, which counts no more.
RemoveLine(f, i) ==
    [arr |-> [j \in 1 .. Len(f.arr) |-> f.arr[IF i <= j /\ j < f.n THEN j + 1 ELSE j]],
     n   |-> f.n - 1]

\* The first line of addr, again and again until there is none.
RemoveFirstAddress(f, addr) ==
    IF LinesAt(f, addr) = {} THEN f ELSE RemoveLine(f, Min(LinesAt(f, addr)))

RemoveAddress(f, addr) == Walk(f, f.n, LAMBDA g, k : RemoveFirstAddress(g, addr))

WithNames(f, i, names) == [f EXCEPT !.arr[i].names = names]

\* host is taken from the line that has it, which goes when it is empty...
Detach(f, host) ==
    LET i == Min(LinesWith(f, host))
        g == WithNames(f, i, f.arr[i].names \ {host})
    IN  IF LinesWith(f, host) = {} THEN f
        ELSE IF g.arr[i].names = {} THEN RemoveLine(g, i) ELSE g

\* ... and put into the first line of addr, or into a new last one.
Attach(f, addr, names) ==
    LET i    == Min(LinesAt(f, addr))
        line == [addr |-> addr, names |-> names]
    IN  IF LinesAt(f, addr) # {} THEN WithNames(f, i, f.arr[i].names \cup names)
        ELSE [arr |-> IF f.n < Len(f.arr) THEN [f.arr EXCEPT ![f.n + 1] = line]
                                          ELSE Append(f.arr, line),
              n   |-> f.n + 1]

AddHost(f, addr, host) ==
    IF Lookup(f, host) = addr THEN f ELSE Attach(Detach(f, host), addr, {host})

AddHosts(f, addr, hosts) ==
    LET order == SetToSeq(hosts)
    IN  Walk(f, Len(order), LAMBDA g, k : AddHost(g, addr, order[k]))

\* RemoveHost for each host of the sequence: kubefwd's, when a forward ends.
RemoveHosts(f, order) == Walk(f, Len(order), LAMBDA g, k : Detach(g, order[k]))

\* for _, line := range *hosts.GetHostFileLines(): Body sees what slot k holds
\* when its turn comes.
RangeLines(f, Body(_, _)) == Walk(f, f.n, LAMBDA g, k : Body(g, g.arr[k]))

\* Mutant: of a line that has src, only src itself is added again.
ReplaceAddressForHost_OnlySrc(f, src, dst) ==
    LET newAddr == Lookup(f, dst) IN
    RangeLines(f, LAMBDA g, line :
        IF src \in line.names
        THEN AddHosts(RemoveAddress(g, line.addr), newAddr, {src}) ELSE g)

\* Mutant: the hosts are added under the address they had.
ReplaceAddressForHost_OldAddr(f, src, dst) ==
    RangeLines(f, LAMBDA g, line :
        IF src \in line.names
        THEN AddHosts(RemoveAddress(g, line.addr), line.addr, line.names) ELSE g)

\* dst has been found: every line with src hands its hosts to dst's address.
ReplaceAddressForHost(f, src, dst) ==
    LET newAddr == Lookup(f, dst) IN
    RangeLines(f, LAMBDA g, line :
        IF src \in line.names
        THEN AddHosts(RemoveAddress(g, line.addr), newAddr, line.names) ELSE g)

\* Mutant: the test of the hostnames is missing.
HostsCleanup_Untested(f) == RangeLines(f, LAMBDA g, line : RemoveAddress(g, line.addr))

HostsCleanup(f) ==
    RangeLines(f, LAMBDA g, line :
        IF line.names \cap Slugged # {} THEN RemoveAddress(g, line.addr) ELSE g)

=============================================================================
