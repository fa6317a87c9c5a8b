------------------------------- MODULE MCVaps -------------------------------
(* Two vaps, and for each plan the kind of device, their modes, and what    *)
(* happens around them.  Each plan brings together what can disturb each    *)
(* other; the failures are in plans of their own.                           *)
EXTENDS Vaps, TLC

CONSTANTS x1, x2

Plan(bus, bcnq1, pmgt, dfs, m1, m2, acts) ==
    [bus |-> bus, bcnq1 |-> bcnq1, pmgt |-> pmgt, dfs |-> dfs,
     mode |-> (x1 :> m1 @@ x2 :> m2), acts |-> acts \cup {"open", "close"}]

MCPlans ==
    {Plan("USB", FALSE, FALSE, FALSE, "STA", "MON", {"delete", "scan", "promisc", "calib"}),
     Plan("USB", FALSE, FALSE, FALSE, "STA", "MON", {"fail"}),
     Plan("PCI", FALSE, FALSE, FALSE, "AP", "MON", {"delete", "scan", "promisc", "update"}),
     Plan("USB", FALSE, FALSE, FALSE, "IBSS", "STA", {"delete", "ifcap"}),
     Plan("USB", FALSE, FALSE, FALSE, "IBSS", "STA", {"scan", "calib"}),
     Plan("PCI", FALSE, FALSE, FALSE, "IBSS", "STA", {"update", "fail"}),
     Plan("PCI", FALSE, FALSE, FALSE, "AP", "STA", {"update", "csa", "calib"}),
     Plan("USB", FALSE, FALSE, FALSE, "AP", "STA", {"csa", "update", "delete"}),
     Plan("USB", FALSE, FALSE, FALSE, "AP", "STA", {"delete", "promisc", "scan"}),
     Plan("USB", FALSE, FALSE, FALSE, "AP", "STA", {"delete", "race"}),
     Plan("USB", TRUE, FALSE, TRUE, "AP", "AP", {"calib", "delete", "scan"}),
     Plan("USB", TRUE, FALSE, TRUE, "AP", "STA", {"scan", "fail"}),
     Plan("USB", FALSE, TRUE, FALSE, "STA", "AP", {"powersave", "update", "csa"}),
     Plan("USB", TRUE, TRUE, FALSE, "STA", "AP", {"fail", "powersave"})}
=============================================================================
