----------------------------- MODULE ShellParse -----------------------------
(***************************************************************************)
(* The parser of sh.c, on a line of tokens: "a" is a word, the rest are the *)
(* symbols (">>" opens the file as ">" does, and is left out).  A word is   *)
(* known by its place in the line.  The pointer *ps is an index s into the  *)
(* line; panic() is the index 0, where no token is found, so that every     *)
(* routine passes it on.                                                    *)
(***************************************************************************)
EXTENDS Naturals, Sequences, SequencesExt, FiniteSetsExt

CONSTANT MAXARGS

Symbol == {"<", ">", "|", "&", ";", "(", ")"}
Token  == Symbol \cup {"a"}

\* Constructors.  The sub-commands are a sequence, empty where there are none.
execcmd(argv)       == [type |-> "EXEC",  argv |-> argv, fd |-> 0, file |-> 0, sub |-> <<>>]
redircmd(c, f, fd)  == [type |-> "REDIR", argv |-> <<>>, fd |-> fd, file |-> f, sub |-> <<c>>]
pipecmd(l, r)       == [type |-> "PIPE",  argv |-> <<>>, fd |-> 0, file |-> 0, sub |-> <<l, r>>]
listcmd(l, r)       == [type |-> "LIST",  argv |-> <<>>, fd |-> 0, file |-> 0, sub |-> <<l, r>>]
backcmd(c)          == [type |-> "BACK",  argv |-> <<>>, fd |-> 0, file |-> 0, sub |-> <<c>>]
Panic               == [type |-> "PANIC", argv |-> <<>>, fd |-> 0, file |-> 0, sub |-> <<>>]

\* peek() and gettoken(): the token at s, "" at the end of the line.
gettoken(t, s) == IF s = 0 THEN "panic" ELSE IF s > Len(t) THEN "" ELSE t[s]
peek(t, s, toks) == gettoken(t, s) \in toks

\* The command with redirections, given as <<file, fd>>, put around it in turn.
Redirected(c, redirs) == FoldLeft(LAMBDA b, r : redircmd(b, r[1], r[2]), c, redirs)

RECURSIVE parseredirs(_, _, _)
parseredirs(t, s, redirs) ==
  IF ~peek(t, s, {"<", ">"}) THEN [redirs |-> redirs, s |-> s]
  ELSE IF gettoken(t, s + 1) # "a" THEN [redirs |-> redirs, s |-> 0]
  ELSE parseredirs(t, s + 2, Append(redirs, <<s + 1, IF t[s] = "<" THEN 0 ELSE 1>>))

\* The loop of parseexec(): argv and the redirections found so far.
RECURSIVE parseargs(_, _, _, _)
parseargs(t, s, argv, redirs) ==
  LET done(to) == [cmd |-> Redirected(execcmd(argv), redirs), s |-> to]
      r == parseredirs(t, s + 1, redirs) IN
  IF peek(t, s, {"|", ")", "&", ";", ""}) THEN done(s)
  ELSE IF gettoken(t, s) # "a" \/ Len(argv) + 1 >= MAXARGS THEN done(0)
  ELSE parseargs(t, r.s, Append(argv, s), r.redirs)

RECURSIVE parseline(_, _)

\* Mutant: the rest of a pipeline is taken to the left.
pipe_Left(l, r) == IF r.type = "PIPE" THEN pipecmd(pipecmd(l, r.sub[1]), r.sub[2]) ELSE pipecmd(l, r)

\* A pipeline nests to the right.
pipe(l, r) == pipecmd(l, r)

parseblock(t, s) ==
  LET line == parseline(t, s + 1)
      r == parseredirs(t, line.s + 1, <<>>) IN
  IF peek(t, line.s, {")"}) THEN [cmd |-> Redirected(line.cmd, r.redirs), s |-> r.s]
                            ELSE [cmd |-> Panic, s |-> 0]

parseexec(t, s) ==
  IF peek(t, s, {"("}) THEN parseblock(t, s)
  ELSE LET r == parseredirs(t, s, <<>>) IN parseargs(t, r.s, <<>>, r.redirs)

RECURSIVE parsepipe(_, _)
parsepipe(t, s) ==
  LET left == parseexec(t, s)
      right == parsepipe(t, left.s + 1) IN
  IF peek(t, left.s, {"|"}) THEN [cmd |-> pipe(left.cmd, right.cmd), s |-> right.s] ELSE left

\* while(peek(ps, es, "&")) cmd = backcmd(cmd);
RECURSIVE parseback(_, _)
parseback(t, c) ==
  IF peek(t, c.s, {"&"}) THEN parseback(t, [cmd |-> backcmd(c.cmd), s |-> c.s + 1]) ELSE c

parseline(t, s) ==
  LET left == parseback(t, parsepipe(t, s))
      right == parseline(t, left.s + 1) IN
  IF peek(t, left.s, {";"}) THEN [cmd |-> listcmd(left.cmd, right.cmd), s |-> right.s] ELSE left

\* The whole line has to be used up.  nulterminate() only ends the words.
parsecmd(t) ==
  LET r == parseline(t, 1) IN IF r.s = Len(t) + 1 THEN r.cmd ELSE Panic

-----------------------------------------------------------------------------
(* What a line means, without a parser: it is cut at its first ";" outside  *)
(* parentheses, then stripped of "&" at its end, then cut at its first "|". *)

Count(t, i, j, x) == Cardinality({k \in i .. j : t[k] = x})
Outside(t, i, k) == Count(t, i, k - 1, "(") = Count(t, i, k - 1, ")")
Cuts(t, i, j, x) == {k \in i .. j : t[k] = x /\ Outside(t, i, k)}

IsFile(t, i, k) == k > i /\ t[k - 1] \in {"<", ">"}
RedirsOf(t, i, j) ==
  LET ks == SelectSeq([k \in 1 .. j |-> k], LAMBDA k : k >= i /\ t[k] \in {"<", ">"}) IN
  [n \in 1 .. Len(ks) |-> <<ks[n] + 1, IF t[ks[n]] = "<" THEN 0 ELSE 1>>]
WordsOf(t, i, j) ==
  SelectSeq([k \in 1 .. j |-> k], LAMBDA k : k >= i /\ t[k] = "a" /\ ~IsFile(t, i, k))

\* Words and redirections, every one with its file.
Plain(t, i, j) ==
  \A k \in i .. j : t[k] \in {"a", "<", ">"} /\ (t[k] # "a" => k < j /\ t[k + 1] = "a")

RECURSIVE LineMeans(_, _, _)
SimpleMeans(t, i, j) ==
  LET closes == {k \in i .. j : t[k] = ")" /\ Count(t, i, k, "(") = Count(t, i, k, ")")}
      k == Min(closes) IN
  IF i <= j /\ t[i] = "("
    THEN IF closes = {} \/ ~Plain(t, k + 1, j) \/ WordsOf(t, k + 1, j) # <<>> THEN Panic
         ELSE Redirected(LineMeans(t, i + 1, k - 1), RedirsOf(t, k + 1, j))
    ELSE IF ~Plain(t, i, j) \/ Len(WordsOf(t, i, j)) >= MAXARGS THEN Panic
         ELSE Redirected(execcmd(WordsOf(t, i, j)), RedirsOf(t, i, j))

RECURSIVE PipeMeans(_, _, _)
PipeMeans(t, i, j) ==
  LET k == Min(Cuts(t, i, j, "|")) IN
  IF Cuts(t, i, j, "|") = {} THEN SimpleMeans(t, i, j)
  ELSE pipecmd(SimpleMeans(t, i, k - 1), PipeMeans(t, k + 1, j))

RECURSIVE BackMeans(_, _, _)
BackMeans(t, i, j) ==
  IF i <= j /\ t[j] = "&" THEN backcmd(BackMeans(t, i, j - 1)) ELSE PipeMeans(t, i, j)

LineMeans(t, i, j) ==
  LET k == Min(Cuts(t, i, j, ";")) IN
  IF Cuts(t, i, j, ";") = {} THEN BackMeans(t, i, j)
  ELSE listcmd(BackMeans(t, i, k - 1), LineMeans(t, k + 1, j))

RECURSIVE HasPanic(_)
HasPanic(c) == c.type = "PANIC" \/ \E k \in DOMAIN c.sub : HasPanic(c.sub[k])

Means(t) ==
  LET c == LineMeans(t, 1, Len(t)) IN IF HasPanic(c) THEN Panic ELSE c
=============================================================================
