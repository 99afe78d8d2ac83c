------------------------------- MODULE Shell -------------------------------
(***************************************************************************)
(* A command line of the user shell, user/utils/lshell/src/shell.c: split  *)
(* into arguments, its variables and quotes replaced, and the program      *)
(* found; with getenv, setenv, strncmp, memmove and execvp of the user     *)
(* library.                                                                *)
(*                                                                         *)
(* A string is a sequence of characters without the final NUL.             *)
(***************************************************************************)
EXTENDS Integers, Sequences, SequencesExt, FiniteSetsExt

CONSTANT MaxParams      \* MAX_PARAMS

NoString == <<"NULL">>
Died == <<"DIED">>      \* the null pointer was followed
Quotes == {"'", "\""}
QUOTE_REPLACE == "x1F"
DOLLAR_REPLACE == "x01"
Garbage == "?"          \* a character that nothing was written to

isspace(c) == c = " "
VariableChar(c) == c \in {"A", "B", "_"}    \* isalnum, or '_': "A" and "B" stand for the former
CharAt(s, i) == IF i > Len(s) THEN "NUL" ELSE s[i]

-----------------------------------------------------------------------------
(* _args_split.  Its three runs, which count, allocate and write, make the    *)
(* same decisions on the same line: they are one scan here.                  *)

\* One turn of the loop.  strch: the quote that is open; at: the position.
ScanStep(str, st) ==
    LET c == str[st.at]
        Put(ch, by) == [st EXCEPT !.params[Len(st.params)] = Append(@, ch), !.at = @ + by]
        pastSpaces == Min({j \in st.at + 1..Len(str) : ~isspace(str[j])} \union {Len(str) + 1})
    IN  IF c = st.strch THEN [Put(QUOTE_REPLACE, 1) EXCEPT !.strch = "none"]
        ELSE IF isspace(c) /\ st.strch = "none"
        THEN [st EXCEPT !.params = Append(@, <<>>), !.at = pastSpaces]
        ELSE IF c = "\\" /\ st.at < Len(str)
        THEN Put(IF str[st.at + 1] = "$" THEN DOLLAR_REPLACE ELSE str[st.at + 1], 2)
        ELSE IF st.strch = "none" /\ c \in Quotes THEN [Put(QUOTE_REPLACE, 1) EXCEPT !.strch = c]
        ELSE Put(c, 1)

\* The arguments.  When there are too many, the first run already finds out, and frees a
\* list that is not there yet: the program follows the null pointer.
_args_split(str) ==
    LET scan[n \in 0..Len(str)] ==
            IF n = 0 THEN [params |-> <<<<>>>>, at |-> 1, strch |-> "none"]
            ELSE LET st == scan[n - 1] IN IF st.at > Len(str) THEN st ELSE ScanStep(str, st)
        params == scan[Len(str)].params
    IN  IF Len(params) > MaxParams THEN Died ELSE params

-----------------------------------------------------------------------------
(* The environment: a sequence of [name, value].                             *)

\* strncmp(environ[i], name, n) with the length of the entry's own name: the entry's name
\* is a prefix of the one asked for.
Matches(entry, name) ==
    /\ Len(entry.name) <= Len(name) /\ SubSeq(name, 1, Len(entry.name)) = entry.name

getenv(environ, name) ==
    LET found == {i \in DOMAIN environ : Matches(environ[i], name)}
    IN  IF found = {} THEN NoString ELSE environ[Min(found)].value

setenv(environ, name, value, overwrite) ==
    LET found == {i \in DOMAIN environ : Matches(environ[i], name)}
        new == [name |-> name, value |-> value]
    IN  IF name = <<>> THEN environ
        ELSE IF found = {} THEN Append(environ, new)
        ELSE IF overwrite THEN [environ EXCEPT ![Min(found)] = new] ELSE environ

-----------------------------------------------------------------------------
(* _args_replace.                                                            *)

\* realloc to n characters: it keeps only what fits, and what is behind it is anything.
Resized(arg, n) == [i \in DOMAIN arg |-> IF i <= n THEN arg[i] ELSE Garbage]

\* Mutant: the end of the argument is not moved.
SubstituteAll(arg, j, k, value) == SubSeq(arg, 1, j - 1) \o value

\* The variable at j, whose name ends before k: the value takes its place.  The argument is
\* shortened before its end is moved, so an end that no longer fits is lost.
Substitute(arg, j, k, value) ==
    LET n == Len(arg) - (k - j) + Len(value)
    IN  SubSeq(arg, 1, j - 1) \o value \o SubSeq(Resized(arg, n), k, Len(arg))

\* One turn of the loop over an argument; j moves on by one after it.  Names are shorter
\* than MAX_ENVLEN.  The block of an argument with a variable gets as many bytes as the new
\* argument has characters, and its NUL is stored behind them: beside is then true.
ReplaceStep(environ, st) ==
    LET j == st.j
        c == st.arg[j]
        k == Min({i \in j + 1..Len(st.arg) : ~VariableChar(st.arg[i])} \union {Len(st.arg) + 1})
        found == getenv(environ, SubSeq(st.arg, j + 1, k - 1))
        value == IF found = NoString THEN <<>> ELSE found
    IN  CASE c = "$" -> 
                 [arg |-> Substitute(st.arg, j, k, value), j |-> j + Len(value) + 1, beside |-> TRUE]
          [] c = DOLLAR_REPLACE -> [st EXCEPT !.arg[j] = "$", !.j = @ + 1]
          [] c = QUOTE_REPLACE -> [st EXCEPT !.arg = RemoveAt(@, j)]
          [] OTHER -> [st EXCEPT !.j = @ + 1]

ReplaceArg(environ, arg) ==
    LET turn[n \in Nat] ==
            IF n = 0 THEN [arg |-> arg, j |-> 1, beside |-> FALSE]
            ELSE LET st == turn[n - 1] IN
                 IF st.j > Len(st.arg) THEN st ELSE ReplaceStep(environ, st)
    IN  turn[Len(arg)]

_args_replace(environ, args) == [i \in DOMAIN args |-> ReplaceArg(environ, args[i])]

-----------------------------------------------------------------------------
(* _execute_command and execvp: the program the child becomes, given those    *)
(* that may be executed.  Programs are found by path.                        *)

SplitPath(path) ==
    LET ends == SelectSeq([j \in 1..Len(path) + 1 |-> j],
                          LAMBDA j : j = Len(path) + 1 \/ path[j] = ":")
    IN  [n \in DOMAIN ends |-> SubSeq(path, IF n = 1 THEN 1 ELSE ends[n - 1] + 1, ends[n] - 1)]

DefaultPath == <<"/", "b", "i", "n", ":", "/", "u", "s", "r">>

execvp(environ, executable, cmd) ==
    LET path == getenv(environ, <<"PATH">>)
        dirs == SplitPath(IF path = NoString THEN DefaultPath ELSE path)
        files == [n \in DOMAIN dirs |-> dirs[n] \o <<"/">> \o cmd]
        found == {n \in DOMAIN files : files[n] \in executable}
    IN  IF \E j \in DOMAIN cmd : cmd[j] = "/" THEN cmd
        ELSE IF found = {} THEN NoString ELSE files[Min(found)]

\* _handle_command: what is executed with which arguments, and whether a NUL was stored
\* beside one of them.
_handle_command(environ, executable, str) ==
    LET split == _args_split(str)
        replaced == _args_replace(environ, split)
        args == [i \in DOMAIN split |-> replaced[i].arg]
    IN  IF split = Died THEN [file |-> Died, args |-> <<>>, beside |-> FALSE]
        ELSE [file |-> execvp(environ, executable, args[1]), args |-> args,
              beside |-> \E i \in DOMAIN split : replaced[i].beside]

-----------------------------------------------------------------------------
(* What a line means: every character is quoted, escaped, a mark, a space or  *)
(* plain text.                                                               *)

\* The quote that is open before position i, and whether the character there is escaped.
Context(str) ==
    LET at[i \in 1..Len(str) + 1] ==
            IF i = 1 THEN [open |-> "none", escaped |-> FALSE]
            ELSE LET before == at[i - 1]
                     c == str[i - 1]
                 IN  [open |-> IF before.escaped THEN before.open
                               ELSE IF c = before.open THEN "none"
                               ELSE IF before.open = "none" /\ c \in Quotes THEN c
                               ELSE before.open,
                      escaped |-> ~before.escaped /\ c = "\\" /\ c # before.open]
    IN  at

\* The positions between arguments, and those of quotes and backslashes.
Between(str) == {i \in DOMAIN str : isspace(str[i]) /\ Context(str)[i] = [open |-> "none", escaped |-> FALSE]}
Marks(str) ==
    LET at == Context(str) IN
    {i \in DOMAIN str : /\ ~at[i].escaped
                        /\ \/ str[i] = "\\" /\ i < Len(str)
                           \/ str[i] \in Quotes /\ at[i].open \in {"none", str[i]}}

\* The arguments of a line without variables, as the user means them.
MeantArgs(str) ==
    LET starts == {1} \union {i + 1 : i \in {i \in Between(str) : (i + 1) \notin Between(str)}}
        nth(n) == CHOOSE i \in starts : Cardinality({j \in starts : j < i}) = n - 1
        upTo(i) == Min({j \in Between(str) : j >= i} \union {Len(str) + 1})
        text(i) == SelectSeq([j \in 1..upTo(i) - 1 |-> j], LAMBDA j : j >= i /\ j \notin Marks(str))
    IN  [n \in 1..Cardinality(starts) |-> [k \in DOMAIN text(nth(n)) |-> str[text(nth(n))[k]]]]
=============================================================================
