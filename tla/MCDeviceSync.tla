---------------------------- MODULE MCDeviceSync ----------------------------
(* DeviceSync with an identified number, a stranger's and a hotline's, all *)
(* of them reported before; and with one number ten people have reported,  *)
(* nine of them as SCAM, at the threshold the code has.                    *)
EXTENDS DeviceSync, TLC

CONSTANTS bank, stranger, hotline, r1

ReportedBefore ==
    {[id |-> 1, phone |-> bank, category |-> "SPAM", reporter |-> r1],
     [id |-> 2, phone |-> stranger, category |-> "SCAM", reporter |-> r1],
     [id |-> 3, phone |-> hotline, category |-> "SCAM", reporter |-> Anonymous],
     [id |-> 4, phone |-> hotline, category |-> "SCAM", reporter |-> Anonymous]}

ReportedByTen ==
    {[id |-> n, phone |-> stranger, category |-> IF n = 10 THEN "SPAM" ELSE "SCAM",
      reporter |-> Anonymous] : n \in 1..10}

Symmetry == Permutations(Tasks)
=============================================================================
