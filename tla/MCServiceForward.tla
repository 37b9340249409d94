-------------------------- MODULE MCServiceForward --------------------------
(* Instances of ServiceForward for TLC: services and hosts files.           *)
EXTENDS ServiceForward, TLC

Service(tunnel, selectors) == [tunnel |-> tunnel, selector |-> selectors]

\* An ordinary service that loses its selector, and a kubetunnel one that gets
\* one.
TwoServices == {Service(FALSE, <<"pods", "none">>), Service(TRUE, <<"none", "agent">>)}

OnLine(addr, names) == [addr |-> addr, names |-> names]

User    == OnLine("local", {"localhost"})
UserTun == OnLine("local", {"kubetunnel-old"})
UserSrc == OnLine("local", {"svc"})
UserTwo == OnLine("a5", {"svc", "db"})
Old1    == OnLine("a1", {"kubetunnel-svc"})
Old3    == OnLine("a1", {"gone"})
Old2    == OnLine("a2", {"old", "old.kubetunnel"})

Tunnels == {"kubetunnel-old", "kubetunnel-svc", "old.kubetunnel", "svc.kubetunnel"}
Server  == OnLine("a3", {"kubetunnel-svc"})
Ours    == OnLine("a4", {"svc", "svc.kubetunnel"})

\* What the user wrote, and what an earlier run left, in several orders.
SomeFiles ==
    {<<Old1, User, Old2>>, <<Old3, Old1, User, UserSrc, UserTwo>>,
     <<User, Old1, Old2, UserTun>>,
     <<UserSrc, UserTwo, User, Old2>>}
=============================================================================
