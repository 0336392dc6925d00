---------------------------- MODULE MCRos2Backend ----------------------------
(* Ros2Backend with the constants of the Backend_*.cfg files.              *)
EXTENDS Ros2Backend
=============================================================================
