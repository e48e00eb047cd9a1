----------------------------- MODULE TokenStream -----------------------------
(***************************************************************************)
(* What an incremental tokenizer promises, whatever its buffers: the       *)
(* tokens given out so far begin the tokens of the input received so far,  *)
(* and at the end they are those tokens.                                   *)
(***************************************************************************)
EXTENDS TokenizerOps

CONSTANT Chunks   \* the byte sequences one call may bring

VARIABLES input,    \* everything received
          tokens,   \* everything given out, adjacent text joined
          ended     \* the end of input was signalled

\* a begins b: all tokens agree, the last text of a may be a part of b's.
Begins(a, b) ==
  \/ a = <<>>
  \/ /\ Len(a) <= Len(b)
     /\ Front(a) = SubSeq(b, 1, Len(a) - 1)
     /\ \/ Last(a) = b[Len(a)]
        \/ /\ Last(a).kind = "text" /\ b[Len(a)].kind = "text"
           /\ IsPrefix(Last(a).data, b[Len(a)].data)

TokensOf(bytes) == JoinText(Tokenize(bytes, TRUE))

Init == input = <<>> /\ tokens = <<>> /\ ended = FALSE

Receive(chunk) ==
  /\ ~ended
  /\ input' = input \o chunk
  /\ Begins(tokens, tokens')
  /\ Begins(tokens', TokensOf(input'))
  /\ UNCHANGED ended

End ==
  /\ ~ended
  /\ ended' = TRUE
  /\ tokens' = TokensOf(input)
  /\ UNCHANGED input

Next == (\E chunk \in Chunks : Receive(chunk)) \/ End

Spec == Init /\ [][Next]_<<input, tokens, ended>>
=============================================================================
