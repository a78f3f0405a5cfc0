------------------------------ MODULE Modeset -------------------------------
(***************************************************************************)
(* libdrm/modeset.c: a program that gives each connector of a graphics     *)
(* card a CRTC and a framebuffer of its own, draws, and puts everything    *)
(* back.  A call of the driver may fail where the code tests for it.  The  *)
(* driver (external): a CRTC scans out one buffer to one connector; to set *)
(* a CRTC takes its connector from the CRTC that had it, which goes dark,  *)
(* as does a CRTC whose framebuffer is removed; a CRTC cannot be set to no *)
(* framebuffer.                                                            *)
(***************************************************************************)
EXTENDS Integers, Sequences, SequencesExt, FiniteSetsExt

CONSTANTS connectors, crtcs,  \* Numbers 1 .. n, in the order of the driver.
          encoders,           \* What a connector may have: its encoders, each
                              \* the set of its possible CRTCs.
          Colors, Mod         \* uint8_t has 256 colors; steps are below Mod.

None    == 0
Console == -1           \* The framebuffer that was on the screen before.
Off     == [fb |-> None, conn |-> None]

VARIABLES
  pc,
  conn,            \* The current CRTC and the encoders of each connector.
  screen, before,  \* What each CRTC shows, now and when the program began.
  i, dev,          \* The connector being set up and its struct modeset_dev.
  modeset_list, iter,
  fbs, dumbs, maps,     \* What the program holds, by connector.
  failed,          \* A call to set or to read a CRTC failed.
  r, up            \* A color, and whether it grows.

hw   == <<conn, before>>
held == <<fbs, dumbs, maps>>
vars == <<pc, hw, screen, i, dev, modeset_list, iter, held, failed, r, up>>

NoDev == [conn |-> None, crtc |-> None, saved_crtc |-> Off]

Init == /\ pc = "off" /\ conn = <<>> /\ screen = <<>> /\ before = <<>>
        /\ i = 1 /\ dev = NoDev /\ modeset_list = <<>> /\ iter = 1
        /\ fbs = {} /\ dumbs = {} /\ maps = {} /\ failed = FALSE
        /\ r = 0 /\ up = TRUE

(* A card on which a CRTC shows the console on at most one connector.      *)
Run ==
  /\ pc = "off" /\ pc' = "connector"
  /\ conn' \in [connectors -> [current : crtcs \cup {None}, encs : encoders]]
  /\ \A c, d \in connectors :
       c # d /\ conn'[c].current # None => conn'[c].current # conn'[d].current
  /\ before' = [t \in crtcs |->
       IF \E c \in connectors : conn'[c].current = t
       THEN [fb |-> Console, conn |-> CHOOSE c \in connectors : conn'[c].current = t]
       ELSE Off]
  /\ screen' = before'
  /\ UNCHANGED <<i, dev, modeset_list, iter, held, failed, r, up>>

-----------------------------------------------------------------------------
(* modeset_prepare, modeset_setup_dev and modeset_find_crtc                *)
InUse == {modeset_list[k].crtc : k \in DOMAIN modeset_list}

(* Mutant: the list is not looked at for the encoders.                     *)
IgnoresList(c) == {p \in (DOMAIN conn[c].encs) \X crtcs : p[2] \in conn[c].encs[p[1]]}
Candidates(c)  == {p \in (DOMAIN conn[c].encs) \X crtcs :
                     p[2] \in conn[c].encs[p[1]] \ InUse}

(* The first encoder that has a free CRTC, and its first one.              *)
First(c) == LET e == Min({p[1] : p \in Candidates(c)})
            IN Min({p[2] : p \in {q \in Candidates(c) : q[1] = e}})

NextConnector == /\ dev' = NoDev /\ i' = i + 1 /\ pc' = "connector"

(* drmModeGetConnector fails, no monitor, no mode, or no CRTC.             *)
Skip == /\ pc = "connector" /\ i \in connectors /\ NextConnector
        /\ UNCHANGED <<hw, screen, modeset_list, iter, held, failed, r, up>>

FindCrtc ==
  /\ pc = "connector" /\ i \in connectors /\ pc' = "dumb"
  /\ LET current == conn[i].current IN
     \/ /\ current \notin {None} \cup InUse
        /\ dev' = [NoDev EXCEPT !.conn = i, !.crtc = current]
     \/ /\ current \in {None} \cup InUse /\ Candidates(i) # {}
        /\ dev' = [NoDev EXCEPT !.conn = i, !.crtc = First(i)]
  /\ UNCHANGED <<hw, screen, i, modeset_list, iter, held, failed, r, up>>

(* modeset_create_fb.  Mutant: err_fb does not go on to err_destroy.       *)
RmFbOnly == fbs' = fbs \ {i} /\ UNCHANGED dumbs
ErrFb    == fbs' = fbs \ {i} /\ dumbs' = dumbs \ {i}

CreateFb ==
  /\ \/ /\ pc = "dumb"
        /\ \/ pc' = "addfb" /\ dumbs' = dumbs \cup {i} /\ UNCHANGED <<i, dev>>
           \/ NextConnector /\ UNCHANGED dumbs
        /\ UNCHANGED <<fbs, maps, modeset_list>>
     \/ /\ pc = "addfb"
        /\ \/ pc' = "map" /\ fbs' = fbs \cup {i} /\ UNCHANGED <<i, dev, dumbs>>
           \/ NextConnector /\ dumbs' = dumbs \ {i} /\ UNCHANGED fbs
        /\ UNCHANGED <<maps, modeset_list>>
     \/ /\ pc = "map" /\ NextConnector
        /\ \/ /\ maps' = maps \cup {i} /\ modeset_list' = <<dev>> \o modeset_list
              /\ UNCHANGED <<fbs, dumbs>>
           \/ ErrFb /\ UNCHANGED <<maps, modeset_list>>
  /\ UNCHANGED <<hw, screen, iter, failed, r, up>>

Prepared == /\ pc = "connector" /\ i \notin connectors
            /\ pc' = "setcrtc" /\ iter' = 1
            /\ UNCHANGED <<hw, screen, i, dev, modeset_list, held, failed, r, up>>

-----------------------------------------------------------------------------
(* main: save and set each CRTC.                                           *)
Set(t, fb, c) == [u \in crtcs |-> IF u = t THEN [fb |-> fb, conn |-> c]
                                  ELSE IF screen[u].conn = c THEN Off ELSE screen[u]]

(* Mutant: the CRTC is read when it has been set.                          *)
SavesAfter(t) == screen'[t]
Saved(t)      == screen[t]

SetCrtc ==
  /\ pc = "setcrtc" /\ iter <= Len(modeset_list)
  /\ LET d == modeset_list[iter] IN
     /\ \/ screen' = Set(d.crtc, d.conn, d.conn) /\ UNCHANGED failed
        \/ failed' = TRUE /\ UNCHANGED screen
     /\ modeset_list' = [modeset_list EXCEPT ![iter].saved_crtc = Saved(d.crtc)]
  /\ iter' = iter + 1
  /\ UNCHANGED <<pc, hw, i, dev, held, r, up>>

StartDrawing == /\ pc = "setcrtc" /\ iter > Len(modeset_list)
                /\ pc' = "draw" /\ up' = TRUE /\ r' \in 0 .. Colors - 2
                /\ UNCHANGED <<hw, screen, i, dev, modeset_list, iter, held, failed>>

(* next_color, in uint8_t.  Mutant: only a color that grows turns.         *)
OneTurn(next) == up /\ next < r
Turns(next)   == (up /\ next < r) \/ (~up /\ next > r)

NextColor(step) == LET next == (r + (IF up THEN step ELSE -step)) % Colors IN
  IF Turns(next) THEN up' = ~up /\ r' = r ELSE r' = next /\ up' = up

Draw == /\ pc = "draw" /\ \E step \in 0 .. Mod - 1 : NextColor(step)
        /\ UNCHANGED <<pc, hw, screen, i, dev, modeset_list, iter, held, failed>>

(* 50 rounds are over.                                                     *)
StopDrawing == /\ pc = "draw" /\ pc' = "cleanup" /\ r' = 0 /\ up' = TRUE
               /\ UNCHANGED <<hw, screen, i, dev, modeset_list, iter, held, failed>>

(* modeset_cleanup, for the head of the list: the CRTC is set back, if it  *)
(* can be, and drmModeRmFB darkens what still shows the framebuffer.       *)
Restored(d) == IF d.saved_crtc.fb = None THEN screen
               ELSE Set(d.crtc, d.saved_crtc.fb, d.conn)

Cleanup ==
  /\ pc = "cleanup" /\ modeset_list # <<>>
  /\ LET d == Head(modeset_list) IN
     /\ screen' = [t \in crtcs |-> IF Restored(d)[t].fb = d.conn THEN Off
                                   ELSE Restored(d)[t]]
     /\ maps' = maps \ {d.conn} /\ fbs' = fbs \ {d.conn} /\ dumbs' = dumbs \ {d.conn}
  /\ modeset_list' = Tail(modeset_list)
  /\ UNCHANGED <<pc, hw, i, dev, iter, failed, r, up>>

Close == /\ pc = "cleanup" /\ modeset_list = <<>> /\ pc' = "closed"
         /\ UNCHANGED <<hw, screen, i, dev, modeset_list, iter, held, failed, r, up>>

Next == \/ Run \/ Skip \/ FindCrtc \/ CreateFb \/ Prepared \/ SetCrtc
        \/ StartDrawing \/ Draw \/ StopDrawing \/ Cleanup \/ Close

Spec == Init /\ [][Next]_vars

-----------------------------------------------------------------------------
(* "We can only drive one connector per CRTC", comment of                  *)
(* modeset_find_crtc: however connectors, encoders and CRTCs are wired.    *)
OneConnectorPerCrtc ==
  \A j, k \in DOMAIN modeset_list :
    j # k => modeset_list[j].crtc # modeset_list[k].crtc

(* A connector whose set-up failed at any step holds nothing, one in the   *)
(* list has all it is drawn with, and nothing is left in the end.          *)
HoldsWhatIsListed ==
  LET listed == {modeset_list[k].conn : k \in DOMAIN modeset_list} IN
  /\ maps = listed
  /\ pc \in {"connector", "cleanup", "closed"} => fbs = listed /\ dumbs = listed

(* Where each connector that is set up had a CRTC of its own before, and   *)
(* no call failed, the screens show again what they showed.                *)
ScreensRestored ==
  pc = "closed" /\ ~failed /\ (\A c \in connectors : conn[c].current # None)
    => screen = before

(* The color changes smoothly: by less than Mod, never around the end.     *)
Smooth == [][pc = "draw" /\ pc' = "draw" =>
             r' - r \in -(Mod - 1) .. (Mod - 1)]_vars

-----------------------------------------------------------------------------
(* The inductive invariant of these properties.                            *)
Screens == [fb : connectors \cup {None, Console}, conn : connectors \cup {None}]
Devs    == [conn : connectors, crtc : crtcs, saved_crtc : Screens]
Creates == pc \in {"dumb", "addfb", "map"}

TypeOK ==
  /\ pc \in {"off", "connector", "dumb", "addfb", "map", "setcrtc", "draw", "cleanup",
             "closed"}
  /\ i \in Nat /\ iter \in Nat \ {0} /\ modeset_list \in Seq(Devs)
  /\ Creates => i \in connectors /\ dev \in Devs /\ dev.conn = i
  /\ pc # "off" => /\ conn \in [connectors -> [current : crtcs \cup {None}, encs : encoders]]
                  /\ before \in [crtcs -> Screens] /\ screen \in [crtcs -> Screens]
  /\ fbs \subseteq connectors /\ dumbs \subseteq connectors
  /\ failed \in BOOLEAN /\ up \in BOOLEAN /\ r \in 0 .. Colors - 1

(* What the card showed: a connector that was lit had a CRTC to itself.    *)
Wired ==
  pc # "off" =>
    /\ \A c, d \in connectors :
         c # d /\ conn[c].current # None => conn[c].current # conn[d].current
    /\ \A c \in connectors :
         conn[c].current # None => before[conn[c].current] = [fb |-> Console, conn |-> c]
    /\ \A t \in crtcs :
         /\ before[t].fb \in {None, Console}
         /\ before[t].conn # None => conn[before[t].conn].current = t

(* The connectors in the list come before the one that is set up.          *)
InOrder ==
  /\ pc = "off" => modeset_list = <<>>
  /\ \A k \in DOMAIN modeset_list : modeset_list[k].conn < i
  /\ \A j, k \in DOMAIN modeset_list :
       j # k => modeset_list[j].conn # modeset_list[k].conn

CrtcIsFree == Creates => \A k \in DOMAIN modeset_list : modeset_list[k].crtc # dev.crtc

Listed   == {modeset_list[k].conn : k \in DOMAIN modeset_list}
Holdings ==
  /\ maps = Listed
  /\ fbs = Listed \cup (IF pc = "map" THEN {i} ELSE {})
  /\ dumbs = Listed \cup (IF pc \in {"addfb", "map"} THEN {i} ELSE {})

(* Where all connectors were lit each is given the CRTC that it had.       *)
AllLit == \A c \in connectors : conn[c].current # None
OwnCrtcs ==
  pc # "off" /\ AllLit =>
    /\ \A k \in DOMAIN modeset_list : modeset_list[k].crtc = conn[modeset_list[k].conn].current
    /\ Creates => dev.crtc = conn[i].current

(* The CRTCs that the program has set show its framebuffers and have saved *)
(* what was there; the others show what they showed.                       *)
Driven == {k \in DOMAIN modeset_list :
             pc \in {"draw", "cleanup", "closed"} \/ (pc = "setcrtc" /\ k < iter)}
Shown ==
  pc # "off" /\ AllLit /\ ~failed =>
    /\ \A k \in Driven : LET d == modeset_list[k] IN
         /\ screen[d.crtc] = [fb |-> d.conn, conn |-> d.conn]
         /\ d.saved_crtc = before[d.crtc]
    /\ \A t \in crtcs :
         (\A k \in Driven : modeset_list[k].crtc # t) => screen[t] = before[t]

Ended == pc = "closed" => modeset_list = <<>>

IInv == /\ TypeOK /\ Wired /\ InOrder /\ OneConnectorPerCrtc /\ CrtcIsFree
        /\ Holdings /\ OwnCrtcs /\ Shown /\ Ended
=============================================================================
