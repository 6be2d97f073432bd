------------------------------ MODULE MCJournal ------------------------------
(***************************************************************************)
(* Model-checking instances of Journal.                                    *)
(***************************************************************************)
EXTENDS Journal, TLC

\* The bounds are reached and nobody has anything left to do.
Finished ==
  /\ \A t \in Threads :
       \/ tpc[t] = "idle" /\ (nrec = MaxRec \/ ~\E n \in ReqSizes : Fits(n))
       \/ tpc[t] = "panicked"
       \/ tpc[t] = "cycle" /\ seq > MaxSeq
       \/ tpc[t] = "retry" /\ nrec = MaxRec /\ Fits(res[t].len)
       \/ tpc[t] = "lock" /\ slow # NoThread
  /\ \A f \in Flushers :
       \/ fpc[f] = "panicked"
       \/ fpc[f] = "idle" /\ seq > MaxSeq
       \* wait_for_pending_drain spins on a leaked or borrowed count
       \/ (CommitErrors \/ UseSlowpath \/ UseStop) /\ fpc[f] = "drain"
  /\ UNCHANGED vars

\* The appending tasks are alike.
Alike == Permutations(Threads)

MCNext     == Next \/ Finished
MCSpec     == Init /\ [][MCNext]_vars
MCFairSpec == MCSpec /\ Fairness

==============================================================================
