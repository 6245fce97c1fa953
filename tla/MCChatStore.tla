----------------------------- MODULE MCChatStore -----------------------------
(* ChatStore with model values: one code that is issued again, and an old log
   with a row that does not parse. *)
EXTENDS ChatStore

OldLog == [c \in Categories |-> IF c = "player" THEN <<"good">> ELSE <<"corrupt", "good">>]

=============================================================================
