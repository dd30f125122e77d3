------------------------------ MODULE MCRunner ------------------------------
(* One job and two runners: r1 with two slots and a directory that outlives a *)
(* restart, r2 as runner-host deploys them.                                   *)
EXTENDS RunnerProtocol, TLC

CONSTANTS r1, r2, s1, s2, s3

MCJob == {1}
MCBoth == {r1, r2}
MCAlone == {r1}
MCJobLabels == [j \in MCJob |-> {}]
MCRunnerLabels == [r \in Runner |-> {}]
MCSlots == {s1, s2, s3}
MCOneSlot == {s1}
MCRunnerOf == [s \in Slot |-> IF s = s3 THEN r2 ELSE r1]
MCRest == {"success", "cancelled"}

=============================================================================
