-------------------------- MODULE MCReconciliation --------------------------
(* A terminal with up to three punches.  A plan is one scenario: the       *)
(* records it starts with, the unwritten slots it may show, and budgets of *)
(* faults and operator commands.                                           *)
EXTENDS Reconciliation

Quiet == [start |-> 1, punches |-> 2, jobs |-> 1, live |-> {}, stale |-> {}, skips |-> 0,
          rewrites |-> 0, clears |-> 0, ops |-> 0, reviews |-> 0, drops |-> 0, reboots |-> 0,
          timeouts |-> 0, races |-> 0, commands |-> 0]

MCPlans == {
    \* the newest slot is read before the terminal writes it
    [Quiet EXCEPT !.punches = 3, !.stale = {"blank", "ghost"}],
    [Quiet EXCEPT !.start = 0, !.stale = {"ghost"}, !.jobs = 2],
    [Quiet EXCEPT !.punches = 3, !.stale = {"copy"}, !.jobs = 2],
    \* the terminal never writes that slot; a LIVE copy of a punch arrives
    [Quiet EXCEPT !.punches = 3, !.stale = {"copy"}, !.skips = 1, !.live = {1}],
    [Quiet EXCEPT !.punches = 3, !.stale = {"ghost"}, !.skips = 1],
    \* the stream drops, an answer is late, the reader reboots
    [Quiet EXCEPT !.drops = 1, !.timeouts = 1],
    [Quiet EXCEPT !.drops = 1, !.jobs = 2, !.live = {1}],
    [Quiet EXCEPT !.reboots = 1, !.stale = {"ghost"}],
    \* the worker grants an assignment while a message or an operator is at work
    [Quiet EXCEPT !.races = 1, !.timeouts = 2, !.stale = {"ghost"}],
    [Quiet EXCEPT !.races = 1, !.ops = 1],
    \* the terminal changes or loses committed records
    [Quiet EXCEPT !.rewrites = 2, !.jobs = 2, !.ops = 1, !.live = {2}],
    [Quiet EXCEPT !.rewrites = 1, !.jobs = 2, !.drops = 1, !.live = {2}],
    [Quiet EXCEPT !.rewrites = 2, !.jobs = 3, !.reviews = 1, !.live = {2}],
    [Quiet EXCEPT !.punches = 3, !.clears = 1, !.jobs = 2, !.timeouts = 1],
    [Quiet EXCEPT !.punches = 3, !.clears = 2, !.jobs = 2, !.rewrites = 1],
    \* operators and ESP commands interrupt the scan
    [Quiet EXCEPT !.ops = 1, !.reviews = 1, !.commands = 1, !.stale = {"blank"}],
    [Quiet EXCEPT !.ops = 2]
  }
=============================================================================
