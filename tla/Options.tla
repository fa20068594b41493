------------------------------ MODULE Options ------------------------------
(* The options (options.c) and where they are kept (choices.c).  They are   *)
(* inForce at the start, changed in the Options box, each change being told  *)
(* to the features at once, or by a SetOption request, and saved when the   *)
(* box is closed.  A save that fails shows a dialog, in which the main loop *)
(* goes on; the filer may be killed at any moment and started again.        *)
EXTENDS Sequences, Naturals

CONSTANTS Opt, Val,      \* the options and their values
          Default,       \* the value an option has if no file sets it
          HasWidget,     \* the options that Options.xml puts into the box
          OldFiles       \* the files of earlier versions that may be there

(* A file of an earlier version sets some of the options. *)
ASSUME OptionsAssumption ==
    /\ Default \in [Opt -> Val] /\ HasWidget \subseteq Opt
    /\ \A f \in OldFiles :
         /\ f \in [format : {"lines", "xml"}, options : {f.options}, home : BOOLEAN]
         /\ \A o \in Opt \cap DOMAIN f.options : f.options[o] \in Val

VARIABLES
    config,   \* the file in ~/.config, the old one, and whether ~/.config has the directory
    inForce,  \* the Option structures of the running filer
    obox,     \* the Options box
    waiters,  \* the handlers that wait for a dialog, the innermost last
    kept      \* what the last save that succeeded wrote

optionVars == <<config, inForce, obox, waiters, kept>>

NoFile == [format |-> "none", options |-> << >>, home |-> FALSE]
Xml(values) == [format |-> "xml", options |-> values, home |-> TRUE]

(* choices_find_xdg_path_load: the first file there is; an option that it   *)
(* does not set has its default.                                            *)
FoundFile(d) == IF d.xdg.format # "none" THEN d.xdg ELSE d.old
Loaded(d) == LET set == FoundFile(d).options
             IN [o \in Opt |-> IF o \in DOMAIN set THEN set[o] ELSE Default[o]]

(* late: changed by SetOption, of which the features are not told. *)
Down == [running |-> FALSE, value |-> Default, backup |-> Default, changed |-> {},
         noticed |-> Default, late |-> {}, failed |-> FALSE]
NoBox == [state |-> "none", widget |-> Default, revert |-> FALSE]

OptionsInit ==
    /\ config \in {[xdg |-> NoFile, old |-> f, dir |-> FALSE] : f \in OldFiles \cup {NoFile}}
    /\ inForce = Down /\ obox = NoBox /\ waiters = << >> /\ kept = Loaded(config)

(* A handler works on all of the state. *)
OptionsNow == [config |-> config, filer |-> inForce, box |-> obox, waiters |-> waiters, kept |-> kept]
OptionsBecome(s) ==
    config' = s.config /\ inForce' = s.filer /\ obox' = s.box /\ waiters' = s.waiters /\ kept' = s.kept

--------------------
(* options_notify: the features look at the options that have changed. *)
Notify(s) ==
    [s EXCEPT !.filer.noticed = [o \in Opt |-> IF o \in s.filer.changed THEN s.filer.value[o] ELSE @[o]],
              !.filer.late = @ \ s.filer.changed,
              !.box.revert = s.box.state = "open" /\ s.filer.value # s.filer.backup]

(* save_options, the file: written beside the old one, then renamed.  The   *)
(* directories are made first.                                              *)
WriteFile(s, how) ==
    [s EXCEPT !.filer.failed = (how # "works"),
              !.config.dir = @ \/ how # "no directory",
              !.config.xdg = IF how = "works" THEN Xml(s.filer.value) ELSE @,
              !.kept = IF how = "works" THEN s.filer.value ELSE @]

(* Mutant: the file itself is written. *)
HalfWrittenInPlace(d) == [d EXCEPT !.dir = TRUE, !.xdg = Xml(<< >>)]
HalfWritten(d) == [d EXCEPT !.dir = TRUE]

Waits(s, dialog) == [s EXCEPT !.waiters = Append(@, dialog)]
BoxGone(s) == [s EXCEPT !.box = NoBox, !.filer.backup = Default]    \* no longer looked at

(* options_destroyed: changes are saved; if that fails, `window' stays set  *)
(* until the user has read it.                                              *)
DestroyBox(s, how) ==
    LET t == [s EXCEPT !.box = [NoBox EXCEPT !.state = "closing"]]
    IN IF s.filer.value = s.filer.backup THEN BoxGone(t)
       ELSE IF how = "works" THEN BoxGone(WriteFile(t, how))
       ELSE Waits(WriteFile(t, how), "close")

(* save_options, the end of it: the box is closed, if it is not already. *)
SaveEnds(s, how) == IF s.box.state = "open" THEN DestroyBox(s, how) ELSE s

(* choices_migrate: the old directory is moved as long as there is no new   *)
(* one.                                                                     *)
Migrate(s, moves) ==
    IF moves /\ ~s.config.dir /\ s.config.old.home
    THEN [s EXCEPT !.config = [xdg |-> s.config.old, old |-> NoFile, dir |-> TRUE]]
    ELSE s

--------------------
SaveHow == {"works", "full", "no directory"}

(* The start: a file of lines is converted, which is shown in a dialog. *)
FilerStarts(how, moves) ==
    LET value == Loaded(config)
        s == [OptionsNow EXCEPT !.filer = [Down EXCEPT !.running = TRUE, !.value = value,
                                                 !.changed = {o \in Opt : value[o] # Default[o]}]]
        t == Notify(s)
    IN /\ ~inForce.running
       /\ OptionsBecome(IF FoundFile(config).format = "lines" THEN Waits(WriteFile(t, how), "start")
                  ELSE Migrate(t, moves))

(* The user has read the innermost dialog, and its handler goes on. *)
DialogEnds(how, moves) ==
    /\ waiters # << >>
    /\ LET s == [OptionsNow EXCEPT !.waiters = SubSeq(@, 1, Len(@) - 1)]
           waiter == waiters[Len(waiters)]
       IN OptionsBecome(CASE waiter = "start" -> Migrate(s, moves)
                    [] waiter = "set"   -> SaveEnds(s, how)
                    [] waiter = "close" -> BoxGone(s))

(* The Options box is opened, used, and closed. *)
NoDialog == inForce.running /\ waiters = << >>       \* no dialog has the grab

ShowOptions ==
    /\ NoDialog /\ obox.state = "none"
    /\ OptionsBecome([OptionsNow EXCEPT !.filer.backup = inForce.value,
                           !.box = [state |-> "open", widget |-> inForce.value, revert |-> FALSE]])

CheckWidget(o, v) ==
    LET s == [OptionsNow EXCEPT !.box.widget[o] = v,
                         !.filer.changed = {p \in {o} : inForce.value[p] # v},
                         !.filer.value[o] = v]
    IN /\ NoDialog /\ obox.state = "open" /\ o \in HasWidget /\ v # obox.widget[o]
       /\ OptionsBecome(IF s.filer.changed = {} THEN s ELSE Notify(s))

UpdateOptionWidgets(s) ==
    [s EXCEPT !.box.widget = [o \in Opt |-> IF o \in HasWidget THEN s.filer.value[o] ELSE @[o]]]

RevertOptions ==
    LET s == [OptionsNow EXCEPT !.filer.changed = {o \in Opt : inForce.value[o] # inForce.backup[o]},
                         !.filer.value = inForce.backup]
    IN NoDialog /\ obox.revert /\ OptionsBecome(UpdateOptionWidgets(Notify(s)))

CloseOptions(how) == NoDialog /\ obox.state = "open" /\ OptionsBecome(DestroyBox(OptionsNow, how))

(* The request SetOption, also while a dialog is up. *)
SetOption(o, v, how, how2) ==
    LET same == inForce.value[o] = v
        s == [OptionsNow EXCEPT !.filer.value[o] = v,
                         !.filer.changed = IF same THEN @ \ {o} ELSE @ \cup {o},
                         !.filer.late = IF same THEN @ ELSE @ \cup {o}]
    IN /\ inForce.running /\ Len(waiters) < 2
       /\ OptionsBecome(IF same THEN s
                  ELSE IF how = "works" THEN SaveEnds(WriteFile(s, how), how2)
                  ELSE Waits(WriteFile(s, how), "set"))

(* The filer ends, perhaps in the middle of a save. *)
KilledSaving(saving) ==
    /\ inForce.running
    /\ OptionsBecome([OptionsNow EXCEPT !.filer = Down, !.box = NoBox, !.waiters = << >>,
                           !.config = IF saving THEN HalfWritten(@) ELSE @])

OptionsNext ==
    \/ ShowOptions \/ RevertOptions
    \/ \E how \in SaveHow :
         CloseOptions(how) \/ \E moves \in BOOLEAN : FilerStarts(how, moves) \/ DialogEnds(how, moves)
    \/ \E saving \in BOOLEAN : KilledSaving(saving)
    \/ \E o \in Opt, v \in Val :
         \/ CheckWidget(o, v)
         \/ \E how, how2 \in SaveHow : (how = "works" \/ how2 = "works") /\ SetOption(o, v, how, how2)

OptionsSpec == OptionsInit /\ [][OptionsNext]_optionVars

--------------------
(* What the last successful save wrote is what the next start loads,        *)
(* through failures, kills and the move of the old directory; without a box *)
(* or a dialog it is what is in force, unless the last save failed; the     *)
(* features know every value but those set by SetOption; and a box shows    *)
(* the values, and offers Revert exactly if there is something to revert.   *)
OptionsKept ==
    /\ Loaded(config) = kept
    /\ NoDialog /\ obox.state = "none" /\ ~inForce.failed => inForce.value = kept
    /\ inForce.running => \A o \in Opt \ inForce.late : inForce.noticed[o] = inForce.value[o]
    /\ obox.state = "open" /\ NoDialog =>
         /\ \A o \in HasWidget : obox.widget[o] = inForce.value[o]
         /\ obox.revert <=> inForce.value # inForce.backup
=============================================================================
