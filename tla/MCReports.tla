------------------------------ MODULE MCReports ------------------------------
(***************************************************************************)
(* Instance of Reports for TLC: tag_wrapper calls that share a tag, one of *)
(* which fails at its second tag, and a hash that takes every set of tags  *)
(* for the same.                                                           *)
(***************************************************************************)
EXTENDS Reports

Tag(k, v) == [key |-> k, value |-> v]
Bad == Tag("b", "<int>")

MCTagLists == {<<Tag("a", "1")>>, <<Tag("a", "1"), Tag("b", "1")>>, <<Tag("b", "1"), Bad>>}
MCBadTags == {Bad}
MCStacks == {<<[name |-> "f", file |-> "f.py", line |-> 1]>>}
MCBackendConfig == [report_pid |-> TRUE, report_thread_id |-> FALSE,
                    report_thread_name |-> FALSE]
MCId(tags) == 0
=============================================================================
