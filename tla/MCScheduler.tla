---------------------------- MODULE MCScheduler ----------------------------
EXTENDS Scheduler

CONSTANTS w0, w1, w2

\* No task but the idle one, one task, and the three of kernel_main.
MCPlans == {<<>>, <<w0>>, <<w0, w1, w2>>}
=============================================================================
