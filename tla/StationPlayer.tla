--------------------------- MODULE StationPlayer ---------------------------
(***************************************************************************)
(* The player of the station page: an audio element whose loudness is set  *)
(* by a gain node, which is made when the listener first presses play, and *)
(* by an effect that runs when the volume changes.  The keys of the media  *)
(* session (a lock screen) call the same functions.                        *)
(***************************************************************************)
EXTENDS Naturals

CONSTANTS
    Volumes,        \* positions of the slider
    FullVolume,
    NoGain          \* there is no gain node yet

ASSUME PlayerAssumption == FullVolume \in Volumes /\ NoGain \notin Volumes

VARIABLES
    streamUrl,      \* the page has its stream, and shows the player
    playing,
    volume,         \* as the slider shows it
    gain,           \* of the gain node
    moved           \* history: the slider was moved since there is a gain node

playerVars == <<streamUrl, playing, volume, gain, moved>>

PlayerTypeOK ==
    /\ {streamUrl, playing, moved} \subseteq BOOLEAN
    /\ volume \in Volumes
    /\ gain \in Volumes \cup {NoGain}

PlayerInit ==
    /\ streamUrl = FALSE
    /\ playing = FALSE
    /\ volume = FullVolume
    /\ gain = NoGain
    /\ moved = FALSE

\* The page is left: its audio element goes, and a new one starts anew.
PlayerReset ==
    /\ streamUrl' = FALSE
    /\ playing' = FALSE
    /\ volume' = FullVolume
    /\ gain' = NoGain
    /\ moved' = FALSE

\* Mutant: a new node, at full volume, for each play.
NewAudioGraph == gain' = FullVolume

ensureAudioGraph == gain' = IF gain = NoGain THEN FullVolume ELSE gain

\* From the button, or from the media session.
play ==
    /\ streamUrl
    /\ ensureAudioGraph
    /\ playing' = TRUE
    /\ UNCHANGED <<streamUrl, volume, moved>>

stop ==
    /\ streamUrl
    /\ playing' = FALSE
    /\ UNCHANGED <<streamUrl, volume, gain, moved>>

\* The slider moves and the effect of the volume runs; gainNode is no state
\* of the page, so that its creation does not run the effect.
MoveVolume(v) ==
    /\ streamUrl
    /\ v # volume
    /\ volume' = v
    /\ gain' = IF gain = NoGain THEN NoGain ELSE v
    /\ moved' = (gain # NoGain)
    /\ UNCHANGED <<streamUrl, playing>>

\* One button plays or stops; the keys of the media session do either.
PlayerControls == (~playing /\ play) \/ (playing /\ stop) \/ \E v \in Volumes : MoveVolume(v)

MediaKeys == play \/ stop

-----------------------------------------------------------------------------
(* What plays is as loud as the slider shows, through any stops and plays, but
   for a volume that was chosen before the first play: that one is not heard
   until the slider moves again. *)
VolumeIsHeard == playing => gain = volume \/ (~moved /\ gain = FullVolume)
=============================================================================
