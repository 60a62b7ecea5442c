------------------------- MODULE MCProtoJSONStream -------------------------
(* All the contents of up to MaxTokens tokens, for TLC. *)
EXTENDS ProtoJSONStream

CONSTANT MaxTokens

MCInputs ==
    {s \in UNION {[1 .. n -> Tokens] : n \in 0 .. MaxTokens} :
        \A i \in 1 .. Len(s) :
            /\ s[i] = "[" => i = 1
            /\ s[i] = "cut" => i = Len(s)}
=============================================================================
