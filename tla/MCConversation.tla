------------------------------ MODULE MCConversation -----------------------------
(* Conversations of six turns: the system prompt, a question, an answer with up to    *)
(* two calls, their results, another answer and what is asked after it.               *)
EXTENDS Conversation
==================================================================================
