----------------------------- MODULE CredentialName -----------------------------
(***************************************************************************)
(* The name of the credential file: slugify and file_name of               *)
(* src/runtime/store.rs.                                                   *)
(*                                                                         *)
(* A text is a sequence of characters, of which the ASCII letters and      *)
(* digits, the capitals among them, and the rest are told apart.           *)
(***************************************************************************)
EXTENDS Integers, Sequences, SequencesExt

CONSTANTS Plain,    \* small letters and digits
          Lower,    \* a function: each capital to its small letter
          Other,    \* the other characters, in which words are not told apart
          Limit,    \* the length a slug is cut to
          Default,  \* the slug of a text without a word
          Servers,  \* bound: the URLs
          Profiles  \* bound: and the profiles of the nodes considered

Capital == DOMAIN Lower
Texts   == Seq(Plain \union Capital \union Other)

ASSUME NameAssumption ==
  /\ Plain \cap Other = {} /\ Capital \cap (Plain \union Other) = {}
  /\ "-" \notin Plain \union Capital
  /\ \A c \in Capital : Lower[c] \in Plain
  /\ Limit \in Nat \ {0}
  /\ Default \in Seq(Plain) \ {<<>>}
  /\ Servers \union Profiles \subseteq Texts

-------------------------------------------------------------------------------
IsLetter(c) == c \in Plain \union Capital

Small(c) == IF c \in Capital THEN Lower[c] ELSE c

PushLetter(out, c) ==
  IF IsLetter(c) /\ Len(out) < Limit THEN Append(out, Small(c)) ELSE out

\* One turn of the loop over the characters; it stops once Limit are out.  (That
\* the last one out is a dash is prev_dash.)
Push(out, c) ==
  IF ~IsLetter(c) /\ Len(out) < Limit /\ out # <<>> /\ Last(out) # "-"
  THEN Append(out, "-")
  ELSE PushLetter(out, c)

TrimNothing(out) == out

\* (No dash comes first, and no two together.)
TrimMatches(out) == IF out # <<>> /\ Last(out) = "-" THEN Front(out) ELSE out

Pushed(input) ==
  LET out[n \in 0..Len(input)] ==
        IF n = 0 THEN <<>> ELSE Push(out[n - 1], input[n])
  IN  out[Len(input)]

slugify(input) ==
  LET trimmed == TrimMatches(Pushed(input))
  IN  IF trimmed = <<>> THEN Default ELSE trimmed

file_name(server, profile) == slugify(server) \o <<"-">> \o slugify(profile)

-------------------------------------------------------------------------------
(***************************************************************************)
(* What a slug is: the words of the text in small letters, with one dash   *)
(* between two of them.                                                    *)
(***************************************************************************)
InWord(text, i) == i \in DOMAIN text /\ IsLetter(text[i])

\* The position after a word stands for the gap that follows, if a word does.
Shown(text, i) ==
  \/ InWord(text, i)
  \/ InWord(text, i - 1) /\ \E j \in DOMAIN text : j > i /\ InWord(text, j)

Sign(text, i) == IF InWord(text, i) THEN Small(text[i]) ELSE "-"

Words(text) ==
  LET words[n \in 0..Len(text)] ==
        IF n = 0 THEN <<>>
        ELSE IF Shown(text, n) THEN Append(words[n - 1], Sign(text, n)) ELSE words[n - 1]
  IN  words[Len(text)]

Name(text) ==
  LET words == Words(text)
      cut   == SubSeq(words, 1, IF Len(words) < Limit THEN Len(words) ELSE Limit)
  IN  IF words = <<>> THEN Default ELSE IF Last(cut) = "-" THEN Front(cut) ELSE cut

\* The texts whose slug is not the words, cut to the limit, with no dash left at
\* either end of the cut.
Misnamed == {text \in Servers : slugify(text) # Name(text)}

Fits(text) == LET words == Words(text) IN words # <<>> /\ Len(words) <= Limit

OneWord(text) == Fits(text) /\ "-" \notin Range(Words(text))

\* The nodes that have a file with another, of URLs that are not cut, told apart
\* by their words, and of profiles of a single word.  (Without these "a.b" and
\* "a-b" share a file, two long URLs share one, and so do the profile "c" of
\* "a/b" and the profile "b-c" of "a".)
Shared ==
  LET nodes == {<<file_name(s, p), Words(s), Words(p)>> :
                  s \in {server \in Servers : Fits(server)},
                  p \in {profile \in Profiles : OneWord(profile)}}
  IN  {m \in nodes : \E n \in nodes : m[1] = n[1] /\ m # n}
===============================================================================
