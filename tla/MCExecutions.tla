---------------------------- MODULE MCExecutions ----------------------------
(* Configurations of the repositories for model checking Executions.       *)
EXTENDS Executions
\* an agent with a cleanup script, or a parallel setup script and an agent
MCEvery == {<<"none", 1>>, <<"parallel", 0>>}
\* a setup script, then an agent
MCSequential == {<<"sequential", 0>>}
=============================================================================
