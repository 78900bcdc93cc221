----------------------------- MODULE MCWorkspace -----------------------------
(* Small instances of Workspace. *)
EXTENDS Workspace, TLC

MCKeys == {Account(u) : u \in Users} \cup {PerIp, Register}
MCLimit == [loginPerIp |-> 1, loginPerAccount |-> 1, registerPerIp |-> 2]
MCMixes ==
    {[ops |-> {"register"}, requests |-> 3, pages |-> 1, faults |-> 0],
     [ops |-> {"login", "logout", "me"}, requests |-> 2, pages |-> 2, faults |-> 1],
     [ops |-> {"register", "login"}, requests |-> 2, pages |-> 2, faults |-> 1],
     [ops |-> SpaceOps, requests |-> 2, pages |-> 2, faults |-> 1],
     [ops |-> ProjectOps \cup {"deleteSpace"}, requests |-> 2, pages |-> 2, faults |-> 1]}
=============================================================================
