----------------------------- MODULE MC_MsgQueue -----------------------------
(* Model-checking instance of MsgQueue: threads are model values.          *)
EXTENDS MsgQueue

CONSTANTS r1, r2, w1, w2, w3

\* No action reads queue_event (it is read by msg_queue_poll only), so
\* states that differ in it alone have the same futures: runs whose
\* properties do not mention it identify them.
ViewWithoutEvents ==
    <<buf, refs, readers, writers, noReaders, noWriters, mainOpen, destroyed,
      rbOwner, validatorFault, pc, arg, ret, written>>
====
