------------------------------- MODULE Texts -------------------------------
(***************************************************************************)
(* Words inside a text, as agent/intent.ts, agent/derivations.ts and       *)
(* data/subject.ts look for them.  A text is a sequence of pieces of words *)
(* with a Break between words, so that one word can lie inside another.    *)
(***************************************************************************)
EXTENDS Integers, Sequences, SequencesExt, FiniteSets, FiniteSetsExt, Functions

Break == "_"

OccursAt(part, text, i) == i + Len(part) - 1 <= Len(text) /\ SubSeq(text, i, i + Len(part) - 1) = part
Includes(text, part) == \E i \in DOMAIN text : OccursAt(part, text, i)
Padded(text) == <<Break>> \o text \o <<Break>>
MentionsInside(text, words) == Includes(text, words)                \* mutant
Mentions(text, words) == Includes(Padded(text), Padded(words))      \* on word boundaries

(* A stretch that cuts through no word of its text, and the words of it.   *)
OnBoundaries(text, i, j) ==
    /\ i = 1 \/ text[i - 1] = Break
    /\ j = Len(text) \/ text[j + 1] = Break
Names(text, words) ==
    \E i \in DOMAIN text : OccursAt(words, text, i) /\ OnBoundaries(text, i, i + Len(words) - 1)
IsWord(text, i, j) == i <= j /\ (\A k \in i..j : text[k] # Break) /\ OnBoundaries(text, i, j)
WordsFrom(text, i) == {SubSeq(text, i, j) : j \in {k \in DOMAIN text : IsWord(text, i, k)}}
WordsIn(text) == UNION {WordsFrom(text, i) : i \in DOMAIN text}

(* split(part).join(" "): every occurrence, from the left, becomes a space.*)
Erase(text, part) ==
    FoldLeft(LAMBDA state, i :
                IF state.skip > 0 THEN [state EXCEPT !.skip = @ - 1]
                ELSE IF OccursAt(part, text, i) THEN [out |-> Append(state.out, Break), skip |-> Len(part) - 1]
                ELSE [state EXCEPT !.out = Append(@, text[i])],
             [out |-> <<>>, skip |-> 0], [i \in DOMAIN text |-> i]).out
=============================================================================
