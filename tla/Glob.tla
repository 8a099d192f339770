------------------------------- MODULE Glob -------------------------------
(***************************************************************************)
(* Key matching, shared by the terminal's filter bar and the web search    *)
(* (src/src/glob.rs). A text is a sequence of characters; Lower is the     *)
(* case folding of str::to_lowercase on the letters used.                  *)
(***************************************************************************)
EXTENDS Integers, Sequences

CONSTANT LowerOf    \* [uppercase letters -> their lowercase]

Lower(s) ==
    [i \in DOMAIN s |-> IF s[i] \in DOMAIN LowerOf THEN LowerOf[s[i]] ELSE s[i]]

NoStar == 0

\* Mutant: the star takes everything up to the character that failed.
TakesTheFailed(s) == [s EXCEPT !.pi = s.sp + 1, !.st = s.ti + 1, !.ti = s.ti + 1]

\* The star takes one more character.
Backtrack(s) == [s EXCEPT !.pi = s.sp + 1, !.st = s.st + 1, !.ti = s.st + 1]

\* glob_chars: p is read at pi, t at ti; the last star was at sp, tried from st.
GlobChars(p, t) ==
    LET States == [pi : 1 .. Len(p) + 1, ti : 1 .. Len(t) + 1,
                   sp : 0 .. Len(p), st : 1 .. Len(t) + 1]
        OnlyStarsFrom(i) == \A k \in i .. Len(p) : p[k] = "*"
        run[s \in States] ==
            LET inP == s.pi <= Len(p)
            IN  IF s.ti > Len(t) THEN OnlyStarsFrom(s.pi)
                ELSE IF inP /\ p[s.pi] = "*"
                     THEN run[[s EXCEPT !.sp = s.pi, !.st = s.ti, !.pi = s.pi + 1]]
                ELSE IF inP /\ p[s.pi] \in {"?", t[s.ti]}
                     THEN run[[s EXCEPT !.pi = s.pi + 1, !.ti = s.ti + 1]]
                ELSE s.sp # NoStar /\ run[Backtrack(s)]
    IN  run[[pi |-> 1, ti |-> 1, sp |-> NoStar, st |-> 1]]

MatchModes == {"glob", "substring", "exact"}

\* KeyMatcher::matches.
Matches(mode, query, key) ==
    LET q == Lower(query)
        k == Lower(key)
    IN  CASE mode = "exact" -> key = query
          [] mode = "glob" -> GlobChars(q, k)
          [] mode = "substring" ->
                \/ q = <<>>
                \/ \E i \in 1 .. Len(k) - Len(q) + 1 : SubSeq(k, i, i + Len(q) - 1) = q

(***************************************************************************)
(* What the documentation of glob_match says: some way of giving each star *)
(* a run of characters makes pattern and text agree.                       *)
(***************************************************************************)
GlobMeaning(p, t) ==
    LET agrees[i \in 1 .. Len(p) + 1, j \in 1 .. Len(t) + 1] ==
            IF i > Len(p) THEN j > Len(t)
            ELSE IF p[i] = "*" THEN \/ agrees[i + 1, j]
                                    \/ j <= Len(t) /\ agrees[i, j + 1]
            ELSE /\ j <= Len(t)
                 /\ p[i] \in {"?", t[j]}
                 /\ agrees[i + 1, j + 1]
    IN  agrees[1, 1]
=============================================================================
