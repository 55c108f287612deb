--------------------------- MODULE MCCaptivePortal ---------------------------
EXTENDS CaptivePortal

\* Of two tasks the second serves only requests that load or save the section, beside
\* such requests of the first, where no idle timeout is set and the reaper rests.
Second == CHOOSE t \in Task : TRUE
InTurn ==
  Busy(Second) => /\ \A p \in Task : ps[p].op \in {"authorize", "update", "reap"}
                  /\ ~Busy(Reaper) /\ ~cfg.idle

\* States that differ only in the kernel, which no step reads, in the history that
\* KernelGates needs, or in what has been granted while that may be wrong, have the
\* same steps and the same counts.
MCView == <<cfg, file, raced, IF raced THEN 0 ELSE granted,
            [p \in Proc |-> [ps[p] EXCEPT !.alone = FALSE, !.dirty = FALSE]]>>
=============================================================================
