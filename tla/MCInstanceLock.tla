---------------------------- MODULE MCInstanceLock ----------------------------
(***************************************************************************)
(* TLC instance of the lock: the daemon of systemd and two more started by *)
(* hand, so that one can refuse or remove what the other two depend on.    *)
(***************************************************************************)
EXTENDS InstanceLock

CONSTANTS unit, manual1, manual2

MCProcess == {unit, manual1, manual2}
MCSupervised == {unit}
===============================================================================
