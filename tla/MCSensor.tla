------------------------------ MODULE MCSensor ------------------------------
(* A small instance of Sensor: a queue the sensor can fill, two readings    *)
(* that differ, and ticks enough for the sensor to be late.                 *)
EXTENDS Sensor
=============================================================================
