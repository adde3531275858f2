---------------------------- MODULE MCLlmAdapter ----------------------------
(***************************************************************************)
(* The two descriptors of LLM_PIPES, two HTTP threads that may press stop  *)
(* at once, two requests of up to two chunks.  Both requests may be of one *)
(* descriptor (given up together) or of two (given up separately), and two *)
(* chunks are what it takes to tell one stray piece from two.              *)
(***************************************************************************)
EXTENDS LlmAdapter

MCDescriptors == {"converse", "deep-research"}
=============================================================================
