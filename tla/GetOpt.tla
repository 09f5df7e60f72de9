-------------------------------- MODULE GetOpt --------------------------------
(***************************************************************************)
(* Lapel::GetOpt (src/src/lapel_get_opt.cpp): options are taken from an    *)
(* argument list one call of next() at a time.  What has been taken is an  *)
(* index into the list and, inside a group of short options, an offset.    *)
(* A step is one call.                                                     *)
(*                                                                         *)
(* An argument is the sequence of its characters.  Where the code compares *)
(* pointers to find the last argument, the last index is meant: no two     *)
(* arguments are the same object.                                          *)
(***************************************************************************)
EXTENDS Options

\* Assumed by the modules that use this one.
GetOptAssumption ==
    /\ NoOption \notin {Table[i] : i \in 1 .. Len(Table)}
    /\ Dash # Equals

VARIABLES args,    \* argv, of argc entries
          index, offset, current_arg, current_opt, state

ownVars == <<index, offset, current_arg, current_opt, state>>
vars == <<args, ownVars>>

argc == Len(args)

TypeOK ==
    /\ index \in 0 .. argc
    /\ offset \in Nat
    /\ current_opt \in {Table[i] : i \in 1 .. Len(Table)} \cup {NoOption}
    /\ state \in {"IDLE", "CHAIN", "FINISHED"}

\* offset is not initialised before a group of short options begins.
Init ==
    /\ index = 0
    /\ offset = 0
    /\ current_arg = NoArg
    /\ current_opt = NoOption
    /\ state = "IDLE"

-----------------------------------------------------------------------------
Token == args[index + 1]
AtOption == index < argc /\ IsOption(Token)
AtEndMark == index < argc /\ Token = <<Dash, Dash>>

\* Where parse_short_option looks: at the first letter, or further in a group.
Place == IF state = "IDLE" THEN 0 ELSE offset
Letter == Token[Place + 2]

InGroup ==
    \/ state = "CHAIN"
    \/ state = "IDLE" /\ AtOption /\ ~IsLong(Token)
AtLong == state = "IDLE" /\ AtOption /\ IsLong(Token)

Found(option) == current_opt' = option

\* Nothing left, or something that is no option.
NextEnds ==
    /\ state = "FINISHED" \/ (state = "IDLE" /\ ~AtOption)
    /\ state' = "FINISHED"
    \* "--" is taken.
    /\ index' = IF state = "IDLE" /\ AtEndMark THEN index + 1 ELSE index
    /\ current_arg' = NoArg
    /\ Found(NoOption)
    /\ UNCHANGED offset

\* An option nobody knows is not taken: the next call finds it again.
NextUnknown ==
    /\ \/ InGroup /\ Short(Letter) = NoOption /\ offset' = Place
       \/ /\ AtLong
          /\ Long(SubSeq(Token, 3, NameEnd(Token))) = NoOption
          /\ UNCHANGED offset
    /\ current_arg' = NoArg
    /\ Found(NoOption)
    /\ UNCHANGED <<index, state>>

\* (mutant) The end of a group is not noticed.
MoreLettersAlways(place) == TRUE
MoreLetters(place) == place + 2 < Len(Token)

NextFlag ==
    /\ InGroup
    /\ IsFlag(Short(Letter))
    /\ Found(Short(Letter))
    /\ current_arg' = NoArg
    /\ offset' = Place + 1
    /\ IF MoreLetters(Place)
       THEN state' = "CHAIN" /\ UNCHANGED index
       ELSE state' = "IDLE" /\ index' = index + 1

IsLastArg == index = argc - 1

\* (mutant) The argument after an option is read and not taken.
TakesFollowingNot == index' = index + 1
\* (mutant) Nor is the option.
TakesNeither == UNCHANGED index
TakesFollowing == index' = index + 2

\* The argument of an option that takes one: the rest of the token from the
\* k-th character on if there is a rest, or else the next token if there is one.
ArgumentOf(k, hasRest) ==
    IF hasRest THEN current_arg' = From(Token, k) /\ index' = index + 1
    ELSE IF ~IsLastArg THEN current_arg' = args[index + 2] /\ TakesFollowing
    ELSE current_arg' = NoArg /\ index' = index + 1

NextWithArg ==
    /\ InGroup
    /\ TakesArg(Short(Letter))
    /\ Found(Short(Letter))
    /\ ArgumentOf(Place + 3, Place + 2 < Len(Token))
    /\ offset' = Place
    /\ state' = "IDLE"

NextLong ==
    /\ AtLong
    /\ Found(Long(SubSeq(Token, 3, NameEnd(Token))))
    /\ current_opt' # NoOption
    /\ IF TakesArg(current_opt')
       THEN ArgumentOf(NameEnd(Token) + 2, Assigned(Token) # {})
       ELSE current_arg' = NoArg /\ index' = index + 1
    /\ UNCHANGED <<offset, state>>

Call ==
    /\ NextEnds \/ NextUnknown \/ NextFlag \/ NextWithArg \/ NextLong
    /\ UNCHANGED args

-----------------------------------------------------------------------------
(* get_result. *)

Result ==
    IF state = "FINISHED" THEN "END"
    ELSE IF current_opt = NoOption THEN "UNKNOWN"
    ELSE IF current_arg = NoArg /\ current_opt.arg = "REQUIRED" THEN "MISSING"
    ELSE "OK"

Heard == [option |-> current_opt, arg |-> current_arg, result |-> Result]

-----------------------------------------------------------------------------
(* Properties. *)

\* What the options from here on mean.
Unread ==
    IF state = "FINISHED" THEN <<End>>
    ELSE Meaning(args, index + 1, IF state = "CHAIN" THEN offset + 2 ELSE 2)

\* Each call hands over the next of the options that the list as a whole
\* means, with its argument, and takes no more than that: an argument is never
\* also an option and none is passed over.  The last one, the end or an option
\* nobody knows, is found again by every further call.
TakesNext ==
    /\ Heard' = Head(Unread)
    /\ Unread' = IF Len(Unread) = 1 THEN Unread ELSE Tail(Unread)

\* The assertion of next(): a group has letters left.
GroupHasLetters == state = "CHAIN" => index < argc /\ offset + 2 <= Len(Token)
==============================================================================
