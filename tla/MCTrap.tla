------------------------------- MODULE MCTrap -------------------------------
(* Small instances of Trap: one user program, two levels of supervisor     *)
(* handlers, with the emulator's SBI or with firmware.                     *)
EXTENDS Trap
=============================================================================
