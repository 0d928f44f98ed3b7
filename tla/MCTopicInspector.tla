-------------------------- MODULE MCTopicInspector --------------------------
(* Two topics, two publishing threads.                                     *)
EXTENDS TopicInspector
=============================================================================
