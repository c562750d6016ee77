------------------------------- MODULE MCQnx --------------------------------
(***************************************************************************)
(* The numbers of the programs themselves (five echoes, three workers of   *)
(* five rounds, ten pulses, of which two may be queued at a time), and two *)
(* processes of shmem_demo in every mix of modes.                          *)
(***************************************************************************)
EXTENDS QnxPrograms

MCThreads == {"main", "server", "timer", "thread"} \cup Workers \cup Procs
MCChannels == {"server", "timer", "intr"} \cup Procs

=============================================================================
