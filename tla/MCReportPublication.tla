------------------------ MODULE MCReportPublication ------------------------
(* Report publication with a small set of interchangeable workflow runs.  *)
EXTENDS ReportPublication, TLC

RunSymmetry == Permutations(Runs)

=============================================================================
