----------------------------- MODULE MCScheduler ------------------------------
(* The threads kernelInitialize creates, and other sets of threads.        *)
EXTENDS KernelScheduler

KernelThread(t) == [thread |-> t, privilege |-> "KERNEL"]
UserThread(t) == [thread |-> t, privilege |-> "USER"]

IdleAndShell == {<<KernelThread("idle"), UserThread("shell")>>}
ThreeThreads ==
  {<<KernelThread("a"), KernelThread("b"), KernelThread("c")>>,
   <<UserThread("a"), UserThread("b"), UserThread("c")>>,
   <<KernelThread("a"), UserThread("b"), UserThread("c")>>}
=============================================================================
