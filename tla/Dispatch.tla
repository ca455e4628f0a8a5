------------------------------- MODULE Dispatch -------------------------------
(***************************************************************************)
(* What becomes of a button (native/g20dispatcher.c, the switch of main,   *)
(* and G20AccessibilityService.java, onKeyEvent): the daemon acts for it,  *)
(* after asking whether Kodi is in front where the case does, and Android  *)
(* shows applications the button's own key event unless the service hides  *)
(* it.                                                                     *)
(***************************************************************************)
EXTENDS KodiReply

CONSTANT Defined   (* which macros of private.h are defined                *)
ASSUME DispatchAssumption ==
  Defined \subseteq {"INPUT_SWITCHER_ACTIVITY", "NETFLIX_LONG_PRESS_ACTIVITY"}

VARIABLES key, mode, does
vars == <<key, mode, does, parser>>

Modes == {"NORMAL", "LONG_PRESS"}
Nothing          == <<"nothing">>
Inject(code, m)  == <<"inject", code, m>>
Start(activity)  == <<"start", activity>>
IfDefined(macro) == IF macro \in Defined THEN Start(macro) ELSE Nothing
By(normal, long) == [NORMAL |-> normal, LONG_PRESS |-> long]
Send(code)       == By(Inject(code, "NORMAL"), Inject(code, "LONG_PRESS"))

(* The cases of the switch, and what two of them do when Kodi is in front. *)
Cases ==
  [ INPUT    |-> By(IfDefined("INPUT_SWITCHER_ACTIVITY"), Nothing),
    SUBTITLE |-> Send("CAPTIONS"),
    INFO     |-> Send("INFO"),
    RED      |-> Send("PROG_RED"),
    GREEN    |-> Send("PROG_GREEN"),
    YELLOW   |-> Send("PROG_YELLOW"),
    TAPE     |-> By(Inject("MEDIA_PLAY_PAUSE", "NORMAL"), Start("settings")),
    YOUTUBE  |-> By(Start("smarttube"), Start("fcast")),
    NETFLIX  |-> By(Start("kodi"), IfDefined("NETFLIX_LONG_PRESS_ACTIVITY")) ]
KodiCases ==
  [ SUBTITLE |-> By(Inject("T", "NORMAL"), Inject("L", "NORMAL")),
    INFO     |-> By(Inject("I", "NORMAL"), Inject("O", "NORMAL")) ]

(* Scan codes by which Android knows the buttons; those that come with     *)
(* KEYCODE_UNKNOWN; those the service hides.                               *)
ScanCode ==
  [ INPUT |-> 240, SUBTITLE |-> 370, INFO |-> 358, RED |-> 398, GREEN |-> 399,
    YELLOW |-> 400, TAPE |-> 384, YOUTUBE |-> 240, NETFLIX |-> 240,
    BLUE |-> 401, PRIME |-> 230, PLAY |-> 229, HOME |-> 172 ]
Buttons == DOMAIN ScanCode
blockedButOne == {370, 358, 398, 399, 400, 401, 240, 230, 229}   (* mutant *)
blockedScanCodes == {370, 358, 398, 399, 400, 401, 384, 240, 230, 229}
onKeyEvent(code, scan) == code = "UNKNOWN" /\ scan \in blockedScanCodes

-----------------------------------------------------------------------------
Undecided == <<"undecided">>

Init ==
  /\ key \in Buttons /\ mode \in Modes /\ does = Undecided
  /\ ParserInit

(* A case that asks waits for the answer; other buttons have no case.      *)
Switch ==
  /\ does = Undecided /\ at = "idle"
  /\ \/ key \in DOMAIN KodiCases /\ Ask /\ UNCHANGED does
     \/ /\ key \notin DOMAIN KodiCases
        /\ does' = IF key \in DOMAIN Cases THEN Cases[key][mode] ELSE Nothing
        /\ UNCHANGED parser
  /\ UNCHANGED <<key, mode>>

(* The second case is entered as well: its break is missing (mutant).      *)
FallThrough ==
  /\ does = Undecided /\ at = "done"
  /\ does' = IF answer THEN KodiCases["INFO"][mode] ELSE Cases["INFO"][mode]
  /\ UNCHANGED <<key, mode, parser>>

Answered ==
  /\ does = Undecided /\ at = "done"
  /\ does' = IF answer THEN KodiCases[key][mode] ELSE Cases[key][mode]
  /\ UNCHANGED <<key, mode, parser>>

Next == Switch \/ Answered \/ (Parse /\ UNCHANGED <<key, mode, does>>)
Spec == Init /\ [][Next]_vars /\ WF_vars(Next)

-----------------------------------------------------------------------------
(* Types; the parcel is never read past its end.                           *)
TypeOK ==
  /\ key \in Buttons /\ mode \in Modes
  /\ at \in {"idle", "header", "scan", "name", "done"} /\ answer \in BOOLEAN
  /\ pos \in 0 .. Len(reply)
  /\ does[1] \in {"undecided", "nothing", "inject", "start"}

(* The search for the Intent's end against what was written: Kodi is found *)
(* when it is in front, and only then, unless the Intent has the pair the  *)
(* search looks for, or ends in an odd number of -2, of which the last     *)
(* takes the user hint for its second word.                                *)
InFront == task.status = 0 /\ task.length = 1 /\ task.running = 1 /\ task.name = KodiName
HasPair(b) == \E i \in 1 .. Len(b) - 1 : b[i] = -2 /\ b[i + 1] = -1
OddEnd(b) ==
  \E n \in 1 .. Len(b) :
    /\ n % 2 = 1
    /\ \A i \in Len(b) - n + 1 .. Len(b) : b[i] = -2
    /\ n < Len(b) => b[Len(b) - n] # -2

KodiRecognised ==
  at = "done" /\ ~(task.intent = 1 /\ HasPair(task.body)) =>
    /\ answer => InFront
    /\ InFront /\ pos > 0 /\ ~(task.intent = 1 /\ OddEnd(task.body)) => answer

(* The README's table of key mappings, row by row: button, held, inside    *)
(* Kodi, what it does.                                                     *)
Table ==
  LET Everywhere(b, held, d) == {<<b, held, k, d>> : k \in BOOLEAN}
      Code(b, c) == Everywhere(b, FALSE, Inject(c, "NORMAL"))
  IN  UNION {
        IF "INPUT_SWITCHER_ACTIVITY" \in Defined
          THEN Everywhere("INPUT", FALSE, Start("INPUT_SWITCHER_ACTIVITY")) ELSE {},
        { <<"SUBTITLE", FALSE, FALSE, Inject("CAPTIONS", "NORMAL")>>,
          <<"SUBTITLE", FALSE, TRUE,  Inject("T", "NORMAL")>>,
          <<"SUBTITLE", TRUE,  TRUE,  Inject("L", "NORMAL")>>,
          <<"INFO",     FALSE, FALSE, Inject("INFO", "NORMAL")>>,
          <<"INFO",     FALSE, TRUE,  Inject("I", "NORMAL")>>,
          <<"INFO",     TRUE,  TRUE,  Inject("O", "NORMAL")>> },
        Code("RED", "PROG_RED"), Code("GREEN", "PROG_GREEN"), Code("YELLOW", "PROG_YELLOW"),
        Code("TAPE", "MEDIA_PLAY_PAUSE"), Everywhere("TAPE", TRUE, Start("settings")),
        Everywhere("YOUTUBE", FALSE, Start("smarttube")),
        Everywhere("YOUTUBE", TRUE, Start("fcast")),
        Everywhere("NETFLIX", FALSE, Start("kodi")) }

DoesAsDocumented ==
  does # Undecided =>
    \A row \in Table :
      row[1] = key /\ row[2] = (mode = "LONG_PRESS") /\ row[3] = answer => does = row[4]

(* An application sees a press once: a button the daemon acts for has its  *)
(* own event hidden (all of them come as KEYCODE_UNKNOWN), and what the    *)
(* daemon injects, which has a key code and scan code 0, is not.           *)
SeenOnce ==
  does # Undecided /\ does # Nothing =>
    /\ onKeyEvent("UNKNOWN", ScanCode[key])
    /\ does[1] = "inject" => ~onKeyEvent(does[2], 0)

(* Whatever the reply holds, the search ends and the press is dealt with.  *)
Decides == <>(does # Undecided)
=============================================================================
