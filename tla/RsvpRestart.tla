---------------------------- MODULE RsvpRestart ----------------------------
(***************************************************************************)
(* Rsvpd with daemons that are started again after they have stopped, by   *)
(* the service script or by hand.  The new process knows nothing of the    *)
(* old one; the kernel and the other routers do.                           *)
(***************************************************************************)
EXTENDS Rsvpd

CONSTANT MaxRestarts       \* bound on the restarts

VARIABLE restarts

restartVars == <<vars, restarts>>

RestartInit == Init /\ restarts = 0

(* restart: the process is new, main is still to run (StartTransit,        *)
(* StartHead).  What arrives before is not heard.                          *)
Restart(r) ==
  /\ daemon[r] = "stopped"
  /\ restarts < MaxRestarts
  /\ restarts' = restarts + 1
  /\ daemon' = [daemon EXCEPT ![r] = "new"]
  /\ labels' = [labels EXCEPT ![r] = {}]
  /\ UNCHANGED <<pathTree, resvTree, pathList, resvList, pathTimer,
                 resvTimer, fec, lfib, net, faults>>

RestartNext ==
  \/ Next /\ UNCHANGED restarts
  \/ \E r \in Router : Restart(r)

RestartSpec == RestartInit /\ [][RestartNext]_restartVars

(* As in Rsvpd; who stops a daemon by the script also starts it.           *)
RestartFairSpec ==
  /\ RestartSpec
  /\ Fairness
  /\ \A r \in Router : WF_restartVars(Restart(r))

----------------------------------------------------------------------------
Transits(l) ==
  {r \in Router : /\ r # l.head
                  /\ NextHop[r][l.tail] \in Router
                  /\ NextHop[l.head][l.tail] = r}

=============================================================================
