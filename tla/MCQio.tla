------------------------------- MODULE MCQio --------------------------------
EXTENDS Qio

CONSTANTS r1, r2, w1, w2, k1, c     \* the Procs

Use(msg, coalesce, noblock, procs) ==
  [msg |-> msg, coalesce |-> coalesce, noblock |-> noblock, users |-> procs]

\* A pipe of devpipe.c, with one writer or with two.
Pipe == Use(FALSE, FALSE, FALSE, {r1, r2, w1, c})
SlimPipe == Use(FALSE, FALSE, FALSE, {r1, w1, c})
SharedPipe == Use(FALSE, FALSE, FALSE, {r1, w1, w2})

\* keyq of devkbd.c, kbdq and kprintoq of devcons.c, waitq of devcmd.c
Keyq == Use(FALSE, TRUE, TRUE, {r1, k1})
Kbdq == Use(FALSE, FALSE, TRUE, {r1, w1, k1})
Kprintoq == Use(FALSE, TRUE, TRUE, {r1, k1, c})
Waitq == Use(TRUE, FALSE, FALSE, {r1, k1, c})

QioUses == {Pipe, Keyq, Kbdq, Kprintoq, Waitq}
LiveUses == {SlimPipe}
WriterUses == {SharedPipe}
=============================================================================
