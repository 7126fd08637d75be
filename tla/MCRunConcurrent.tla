-------------------------- MODULE MCRunConcurrent --------------------------
(* Up to four tasks.  Against two places the loop blocks, is resumed by a   *)
(* return and still has tasks to hand over after the first failure; a       *)
(* request of 0 or of -3 has to run them one by one; one of 40 is cut to    *)
(* the ceiling, three here, which four tasks would exceed.                  *)
EXTENDS RunConcurrent

MCIndex == 0 .. 3
MCRequests == {-3, 0, 2, 40}
=============================================================================
