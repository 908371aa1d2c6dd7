----------------------------- MODULE ArgvParser -----------------------------
(***************************************************************************)
(* The parser of command lines, and a program that makes its calls in any  *)
(* order.  An argument is plain, a short option, a long option or several  *)
(* letters behind one dash.  A requirement that fails stops the program.   *)
(*                                                                         *)
(* Source: ArgvParser.c, ArgvParser.h.                                     *)
(***************************************************************************)
EXTENDS Integers, SequencesExt, FiniteSetsExt

CONSTANTS
    CommandLines,   \* sequences of arguments, [kind, name]
    Descriptors     \* the options, [short, long, hasParameter]

NO_OPTION == -1
ERROR == -2
EOL == -3
Kinds == {"plain", "short", "long", "letters"}
Null == [kind |-> "null", name |-> "null"]

ASSUME ArgvAssumption ==
    /\ \A c \in CommandLines : /\ c \in Seq(Range(c))
                               /\ \A i \in 1..Len(c) : c[i].kind \in Kinds
    /\ Descriptors \in Seq(Range(Descriptors))
    /\ \A i \in 1..Len(Descriptors) : Descriptors[i].hasParameter \in BOOLEAN

VARIABLES
    self,       \* the parser
    line,       \* the command line of the program
    eaten       \* history: positions of the arguments the parser has taken

argvVars == <<self, line, eaten>>

Fresh == [valid |-> "NEW", argc |-> -1, descriptors |-> FALSE, ignore |-> FALSE,
          error |-> FALSE, curArgIdx |-> 0, curOptIdx |-> 0, curParameter |-> Null,
          stopped |-> FALSE]

ParserTypeOK ==
    /\ self.valid \in {"NEW", "INIT", "VALID", "INVALID"}
    /\ self.argc \in -1..Len(line) /\ self.curArgIdx \in -1..Len(line) + 2
    /\ self.curOptIdx \in {0, NO_OPTION, ERROR, EOL} \cup 0..Len(Descriptors) - 1

ArgvInit == self = Fresh /\ line \in CommandLines /\ eaten = <<>>

Argument(i) == line[i + 1]
Descriptor(i) == Descriptors[i + 1]

\* ANY_REQUIRE: the program stops when the parser is in none of the states.
Require(states) ==
    /\ self.valid \notin states
    /\ self' = [self EXCEPT !.stopped = TRUE] /\ UNCHANGED <<line, eaten>>

-----------------------------------------------------------------------------
ArgvParser_init ==
    /\ self' = [Fresh EXCEPT !.valid = "INIT"] /\ eaten' = <<>> /\ UNCHANGED line

ArgvParser_clear ==
    \/ Require({"INIT", "VALID"})
    \/ /\ self.valid \in {"INIT", "VALID"}
       /\ self' = [Fresh EXCEPT !.valid = "INVALID"] /\ eaten' = <<>> /\ UNCHANGED line

ArgvParser_setArguments ==
    \/ Require({"INIT"})
    \/ /\ self.valid = "INIT"
       /\ self' = [self EXCEPT !.argc = Len(line)] /\ UNCHANGED <<line, eaten>>

ArgvParser_setOptionDescriptors ==
    \/ Require({"INIT"})
    \/ /\ self.valid = "INIT"
       /\ self' = [self EXCEPT !.descriptors = TRUE] /\ UNCHANGED <<line, eaten>>

ArgvParser_setIgnoreUnknownOptions ==
    \/ Require({"INIT", "VALID"})
    \/ /\ self.valid \in {"INIT", "VALID"}
       /\ \E flag \in BOOLEAN : self' = [self EXCEPT !.ignore = flag]
       /\ UNCHANGED <<line, eaten>>

-----------------------------------------------------------------------------
(* The next argument.                                                      *)

Failed(p) == [p EXCEPT !.error = TRUE, !.curOptIdx = ERROR]

\* The descriptor of an option, or NO_OPTION.
Option(arg) ==
    LET named(i) == \/ arg.kind = "short" /\ Descriptor(i).short = arg.name
                    \/ arg.kind = "long" /\ Descriptor(i).long = arg.name
        found == {i \in 0..Len(Descriptors) - 1 : named(i)}
    IN  IF found = {} THEN NO_OPTION ELSE Min(found)

\* Mutant: the error of an argument before is forgotten.
OntoForgiving(p) == [p EXCEPT !.curArgIdx = @ + 1, !.curParameter = Null, !.error = FALSE]

Onto(p) == [p EXCEPT !.curArgIdx = @ + 1, !.curParameter = Null]

\* An option that takes the argument behind it, if there is one.
WithParameter(p, opt) ==
    LET i == p.curArgIdx + 1
    IN  IF i >= p.argc THEN Failed([p EXCEPT !.curArgIdx = i])
        ELSE [p EXCEPT !.curOptIdx = opt, !.curArgIdx = i, !.curParameter = Argument(i)]

\* What ArgvParser_advance makes of the parser.
Advanced(before) ==
    LET p == Onto(before)
        arg == Argument(p.curArgIdx)
        alone == [p EXCEPT !.curOptIdx = NO_OPTION, !.curParameter = arg]
        opt == Option(arg)
    IN  IF p.curArgIdx >= p.argc THEN [p EXCEPT !.curOptIdx = EOL]
        ELSE CASE arg.kind = "plain" -> alone
               [] arg.kind = "letters" -> Failed(p)
               [] arg.kind \in {"short", "long"} /\ opt = NO_OPTION ->
                    IF p.ignore THEN alone ELSE Failed(p)
               [] OTHER -> IF Descriptor(opt).hasParameter THEN WithParameter(p, opt)
                           ELSE [p EXCEPT !.curOptIdx = opt]

\* The arguments taken by a parser that is now p and went on to argument i.
Taken(p, i) ==
    IF i >= p.argc THEN <<>>
    ELSE IF p.curOptIdx >= 0 /\ p.curParameter # Null THEN <<i, i + 1>> ELSE <<i>>

\* The parser of a program that has come to the end is not advanced for ever.
ArgvParser_advance ==
    \/ Require({"VALID"})
    \/ /\ self.valid = "VALID" /\ self.curArgIdx <= self.argc
       /\ self' = Advanced(self)
       /\ eaten' = eaten \o Taken(self', self.curArgIdx + 1)
       /\ UNCHANGED line

\* ArgvParser_setup goes on to the first argument, the name of the program.
ArgvParser_setup ==
    \/ Require({"INIT"})
    \/ /\ self.valid = "INIT"
       /\ IF self.argc < 0 \/ ~self.descriptors THEN UNCHANGED <<self, eaten>>
          ELSE /\ self' = Advanced([self EXCEPT !.valid = "VALID", !.curArgIdx = -1])
               /\ eaten' = Taken(self', 0)
       /\ UNCHANGED line

ArgvNext ==
    /\ ~self.stopped
    /\ \/ ArgvParser_init \/ ArgvParser_clear \/ ArgvParser_setArguments
       \/ ArgvParser_setOptionDescriptors \/ ArgvParser_setIgnoreUnknownOptions
       \/ ArgvParser_setup \/ ArgvParser_advance

-----------------------------------------------------------------------------
(* Properties.                                                             *)

\* Every argument is taken once and in its place: as the parameter of the option
\* before it or as an argument of its own, never as both.
EachArgumentOnce ==
    self.valid = "VALID" =>
        /\ \A k \in 1..Len(eaten) : eaten[k] = k - 1
        /\ self.curOptIdx = EOL => Len(eaten) = self.argc

\* A parameter is that of the option it is given with: the argument behind the
\* option, and none for an option that takes none.
ParameterIsOwn ==
    self.valid = "VALID" /\ self.curOptIdx >= 0 =>
        IF Descriptor(self.curOptIdx).hasParameter
        THEN /\ self.curParameter = Argument(self.curArgIdx)
             /\ Option(Argument(self.curArgIdx - 1)) = self.curOptIdx
        ELSE self.curParameter = Null /\ Option(Argument(self.curArgIdx)) = self.curOptIdx

\* An error is seen at the end of the command line: no later argument hides it.
ErrorSticks ==
    [][self.error => self'.error \/ self'.valid # "VALID"]_argvVars

(* Each argument of the command line is taken once, with its own parameter,  *)
(* and the first error stays.                                                *)
ArgumentsAreTaken ==
    /\ [](ParserTypeOK /\ EachArgumentOnce /\ ParameterIsOwn)
    /\ ErrorSticks
=============================================================================
