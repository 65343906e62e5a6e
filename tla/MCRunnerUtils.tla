---------------------------- MODULE MCRunnerUtils ----------------------------
(***************************************************************************)
(* An instance of RunnerUtils for TLC: a suite with three tests, a suite    *)
(* with a test and a test whose data provider is empty, and a suite without *)
(* tests.  A test case that is selected twice is two of one test.           *)
(***************************************************************************)
EXTENDS RunnerUtils

MCTestsuites == {"s", "u", "empty"}
MCTests == {"a", "b", "c", "d", "e"}
MCTestcases == {"a1", "b1", "c1", "d1"}

MCTestsOf == [suite \in MCTestsuites |->
    CASE suite = "s" -> <<"a", "b", "c">> [] suite = "u" -> <<"d", "e">>
      [] OTHER -> <<>>]
MCCasesOf == [test \in MCTests |->
    CASE test = "a" -> <<"a1">> [] test = "b" -> <<"b1">>
      [] test = "c" -> <<"c1">> [] test = "d" -> <<"d1">> [] OTHER -> <<>>]
MCSuiteOf == [test \in MCTests |-> IF test \in {"d", "e"} THEN "u" ELSE "s"]
MCTestOf == [testcase \in MCTestcases |->
    CASE testcase = "a1" -> "a" [] testcase = "b1" -> "b"
      [] testcase = "c1" -> "c" [] OTHER -> "d"]
===============================================================================
