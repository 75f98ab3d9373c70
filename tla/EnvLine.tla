------------------------------- MODULE EnvLine -------------------------------
(***************************************************************************)
(* What imbhgo-fetch -print-env prints, and what becomes of it: the tool   *)
(* renders CGO_LDFLAGS for its cache directory as one line of a shell      *)
(* dialect (cmd/imbhgo-fetch/main.go), the shell evaluates the line, and   *)
(* cmd/go splits the variable into linker arguments. The shells and cmd/go *)
(* are external. Text is a sequence of characters; the characters are the  *)
(* ones one of the three treats specially, and a plain one.                *)
(***************************************************************************)
EXTENDS Integers, Sequences

CONSTANTS
    MaxDir   \* bound on the length of the directory name

ASSUME DirAssumption == MaxDir \in Nat

VARIABLES shell, dir, line, value, args

envVars == <<shell, dir, line, value, args>>

Chars  == {"a", " ", "\t", "'", "\"", "\\", "$"}
Shells == {"sh", "cmd", "powershell"}
Blank  == {" ", "\t"}
Unset  == <<"unset">>
Bad    == <<"rejected">>   \* what the shell or cmd/go refuses

Has(text, chars) == \E i \in 1..Len(text) : text[i] \in chars

\* The argument names, one symbol each: their letters play no part.
DashL  == <<"-L">>
DashLib == <<"-limbhgo">>

-----------------------------------------------------------------------------
(* The tool *)

LdflagsFor(cacheDir) ==
    LET search == DashL \o cacheDir
    IN  (IF Has(search, Blank) THEN <<"'">> \o search \o <<"'">> ELSE search)
            \o <<" ">> \o DashLib

ReplaceQuotes(s, by) ==
    LET b[i \in 0..Len(s)] ==
          IF i = 0 THEN <<>> ELSE b[i - 1] \o (IF s[i] = "'" THEN by ELSE <<s[i]>>)
    IN  b[Len(s)]

DoubledPosixQuote(s) == <<"'">> \o ReplaceQuotes(s, <<"'", "'">>) \o <<"'">>  \* mutant

PosixQuote(s) == <<"'">> \o ReplaceQuotes(s, <<"'", "\\", "'", "'">>) \o <<"'">>

PowerShellQuote(s) == <<"'">> \o ReplaceQuotes(s, <<"'", "'">>) \o <<"'">>

\* The right-hand side of the assignment; the name before it is fixed.
EnvLineFor(sh, v) ==
    CASE sh = "cmd"        -> v
      [] sh = "powershell" -> PowerShellQuote(v)
      [] OTHER             -> PosixQuote(v)

-----------------------------------------------------------------------------
(* The shells: the value a right-hand side assigns, or Bad where it is not  *)
(* one word, or is more than quoting ($, an open quote).                    *)

\* One POSIX word: quoted text is literal, a backslash outside quotes takes
\* the next character literally.
PosixStep(st, c) ==
    CASE st.mode = "quoted" /\ c = "'"  -> [st EXCEPT !.mode = "plain"]
      [] st.mode = "quoted" /\ c # "'"  -> [st EXCEPT !.out = Append(@, c)]
      [] st.mode = "escape"             -> [mode |-> "plain", out |-> Append(st.out, c)]
      [] st.mode = "plain" /\ c = "'"   -> [st EXCEPT !.mode = "quoted"]
      [] st.mode = "plain" /\ c = "\\"  -> [st EXCEPT !.mode = "escape"]
      [] st.mode = "plain" /\ c \in Blank \union {"\"", "$"}
                                        -> [st EXCEPT !.mode = "bad"]
      [] st.mode = "bad"                -> st
      [] OTHER                          -> [st EXCEPT !.out = Append(@, c)]

\* One PowerShell single-quoted string, in which '' is a quote.
PowerShellStep(st, c) ==
    CASE st.mode = "start"  /\ c = "'" -> [st EXCEPT !.mode = "quoted"]
      [] st.mode = "quoted" /\ c = "'" -> [st EXCEPT !.mode = "quote"]
      [] st.mode = "quoted" /\ c # "'" -> [st EXCEPT !.out = Append(@, c)]
      [] st.mode = "quote"  /\ c = "'" -> [mode |-> "quoted", out |-> Append(st.out, c)]
      [] OTHER                         -> [st EXCEPT !.mode = "bad"]

\* cmd/go: fields are separated by blanks, a quote that opens a field runs to
\* the next one of its kind, and nothing is escaped.
FieldStep(st, c) ==
    CASE st.mode = "gap" /\ c \in Blank        -> st
      [] st.mode = "gap" /\ c \in {"'", "\""}  -> [st EXCEPT !.mode = c]
      [] st.mode \in {"'", "\""} /\ c = st.mode
           -> [mode |-> "gap", cur |-> <<>>, out |-> Append(st.out, st.cur)]
      [] st.mode = "word" /\ c \in Blank
           -> [mode |-> "gap", cur |-> <<>>, out |-> Append(st.out, st.cur)]
      [] st.mode = "gap" /\ c \notin Blank \union {"'", "\""}
           -> [st EXCEPT !.mode = "word", !.cur = <<c>>]
      [] OTHER -> [st EXCEPT !.cur = Append(@, c)]

Advance(reader, st, c) ==
    CASE reader = "posix"      -> PosixStep(st, c)
      [] reader = "powershell" -> PowerShellStep(st, c)
      [] reader = "fields"     -> FieldStep(st, c)

\* The state a reader is in after the text.
Scan(reader, start, text) ==
    LET st[i \in 0..Len(text)] ==
          IF i = 0 THEN start ELSE Advance(reader, st[i - 1], text[i])
    IN  st[Len(text)]

PosixWord(text) ==
    LET end == Scan("posix", [mode |-> "plain", out |-> <<>>], text)
    IN  IF end.mode = "plain" THEN end.out ELSE Bad

PowerShellString(text) ==
    LET end == Scan("powershell", [mode |-> "start", out |-> <<>>], text)
    IN  IF end.mode = "quote" THEN end.out ELSE Bad

ShellValue(sh, text) ==
    CASE sh = "cmd"        -> text
      [] sh = "powershell" -> PowerShellString(text)
      [] OTHER             -> PosixWord(text)

SplitFields(text) ==
    LET end == Scan("fields", [mode |-> "gap", cur |-> <<>>, out |-> <<>>], text)
    IN  CASE end.mode = "gap"  -> end.out
          [] end.mode = "word" -> Append(end.out, end.cur)
          [] OTHER             -> Bad

-----------------------------------------------------------------------------
EnvInit ==
    /\ shell \in Shells
    /\ dir \in UNION {[1..n -> Chars] : n \in 1..MaxDir}
    /\ line = Unset /\ value = Unset /\ args = Unset

Emit ==   \* emit, with -print-env
    /\ line = Unset
    /\ line' = EnvLineFor(shell, LdflagsFor(dir))
    /\ UNCHANGED <<shell, dir, value, args>>

Eval ==
    /\ line # Unset /\ value = Unset
    /\ value' = ShellValue(shell, line)
    /\ UNCHANGED <<shell, dir, line, args>>

GoBuild ==
    /\ value # Unset /\ args = Unset
    /\ args' = SplitFields(value)
    /\ UNCHANGED <<shell, dir, line, value>>

EnvDone == args # Unset /\ UNCHANGED envVars

EnvNext == Emit \/ Eval \/ GoBuild \/ EnvDone

EnvSpec == EnvInit /\ [][EnvNext]_envVars

-----------------------------------------------------------------------------
Linked == args = <<DashL \o dir, DashLib>>

\* What the tool prints reaches the linker: the shell assigns the very flags
\* that were rendered, whatever quotes, backslashes, blanks or $ the directory
\* holds (envLine, posixQuote, powerShellQuote), and cmd/go splits them into the
\* directory as one -L argument and the library as another (ldflagsFor), unless
\* the directory has both a blank and an apostrophe.
DirectoryIsOneArgument ==
    /\ value # Unset => value = LdflagsFor(dir)
    /\ args # Unset /\ ~(Has(dir, Blank) /\ Has(dir, {"'"})) => Linked
==============================================================================
