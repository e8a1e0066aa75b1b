------------------------- MODULE MaintenanceSlot -------------------------
(* What the maintenance slot of a server process promises: a process works on  *)
(* one job at a time, and a job that gave the slot back never returns.         *)
CONSTANTS Processes, Jobs

\* lease[j] is the process that works on job j, "new" before and "over" after.
VARIABLE lease

SlotInit == lease = [j \in Jobs |-> "new"]

Idle(p) == \A j \in Jobs : lease[j] # p

Take(p, j) ==
  /\ lease[j] = "new"
  /\ Idle(p)
  /\ lease' = [lease EXCEPT ![j] = p]

Give(j) ==
  /\ lease[j] \in Processes
  /\ lease' = [lease EXCEPT ![j] = "over"]

SlotNext == \E j \in Jobs : Give(j) \/ \E p \in Processes : Take(p, j)

SlotSpec == SlotInit /\ [][SlotNext]_lease
===========================================================================
