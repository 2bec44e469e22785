------------------------------ MODULE SimPage ------------------------------
(* The CAN simulator, its panel and the profiles on disk                   *)
(* (gui/src/can_simulator.cpp, simulator_panel.cpp,                        *)
(* simulator_panel_waveform.cpp, sim_profile.cpp).  A profile has one      *)
(* message with one signal: an identifier, a waveform, whether scenario    *)
(* points are stored, a description.  "plant" is built in; the others are  *)
(* files, named after the profile they hold.                               *)
EXTENDS Session

VARIABLES
  sim,   \* the panel: profile selected, m_currentProfile, Start, what the tree shows; m_simulator
  disk   \* profile files; NoFile where there is none

simVars == <<sim, disk>>

Profiles == {"plant", "a", "b"}
Custom == Profiles \ {"plant"}
NoFile == [id |-> -1]
SimWaves == {"none", "sine"}

\* std::to_string(id) behind "0x", read back as a hexadecimal number.
AsHexOfDecimal[n \in Nat] == IF n < 10 THEN n ELSE 16 * AsHexOfDecimal[n \div 10] + (n % 10)

\* save_sim_profile followed by load_sim_profile; one digit means the same in both.
Saved(p) == IF p.id < 10 THEN p ELSE [p EXCEPT !.id = AsHexOfDecimal[@]]

\* CanSimulator::load and setSignalWaveform: a waveform is played from generated points.
Playing(p) == [p EXCEPT !.points = @ \/ p.wave # "none"]

\* onProfileChanged.  populateTree shows a signal as animated for the points of
\* m_currentProfile alone, and the value the file has.
Fresh(path, p) ==
  [path |-> path, current |-> p, live |-> Playing(p), animated |-> p.points,
   value |-> "default", shown |-> "default", reshaped |-> FALSE,
   running |-> FALSE, start |-> FALSE, timers |-> 0]

\* A plausible bug: the timers of the profile before go on.
LoadedRunning(path, p) == [Fresh(path, p) EXCEPT !.timers = sim.timers]
Loaded(path, p) == Fresh(path, p)

Plant == [id |-> 5, wave |-> "sine", points |-> TRUE, text |-> "own"]

SimInit ==
  /\ disk = [f \in Profiles |-> IF f = "plant" THEN Plant ELSE NoFile]
  /\ sim = Fresh("plant", Plant)

\* onStartStop: one timer for the animation, one per message.
StartStop ==
  /\ Input
  /\ sim' = [sim EXCEPT !.start = ~@, !.running = ~sim.start, !.timers = IF sim.start THEN 0 ELSE 2]
  /\ UNCHANGED disk

\* onProfileChanged, by the user or by setProfileByName.
ProfileChanged ==
  /\ Input
  /\ \E f \in Profiles : disk[f] # NoFile /\ f # sim.path /\ sim' = Loaded(f, disk[f])
  /\ UNCHANGED disk

\* What the editor may hold when it is accepted: buildProfile.
Edited == [id: {5, 16}, wave: SimWaves, points: BOOLEAN, text: {"custom"}]

\* onNewProfile: saveToFile under the profile's name, over a file that has it.  A selected
\* custom profile is loaded again by populateProfiles, then the new one selected.
NewProfile ==
  /\ Input
  /\ \E f \in Custom, p \in Edited :
       /\ disk' = [disk EXCEPT ![f] = p]
       /\ sim' = Loaded(f, disk'[f])

\* onEditProfile: the editor saves under the name it shows, the panel once more, under
\* the path selected.
EditProfile ==
  /\ sim.path \in Custom /\ ~sim.running /\ Input
  /\ \E f \in Custom, p \in Edited :
       /\ disk' = [disk EXCEPT ![f] = p, ![sim.path] = Saved([p EXCEPT !.text = "lost"])]
       /\ sim' = Loaded(sim.path, disk'[sim.path])

\* openWaveformConfig, also while running: m_currentProfile keeps the points it had.
Waveform ==
  /\ Input
  /\ \E w \in SimWaves :
       LET p == [sim.current EXCEPT !.wave = w] IN
       /\ sim' = [sim EXCEPT !.current = p, !.live.wave = w, !.live.points = (w # "none"),
                             !.animated = p.points, !.shown = "default", !.reshaped = TRUE]
       /\ disk' = IF sim.path = "plant" THEN disk ELSE [disk EXCEPT ![sim.path] = Saved(p)]

\* onDeleteProfile: the first profile is selected.
DeleteProfile ==
  /\ sim.path \in Custom /\ ~sim.running /\ Input
  /\ disk' = [disk EXCEPT ![sim.path] = NoFile]
  /\ sim' = Loaded("plant", Plant)

\* The spin box of a signal that is shown as manual.
SetSignalValue ==
  /\ ~sim.animated /\ Input
  /\ sim' = [sim EXCEPT !.value = "user", !.shown = "user"]
  /\ UNCHANGED disk

\* tickAnimations.
AnimationTick ==
  /\ sim.timers > 0 /\ Step
  /\ LET v == IF sim.live.points THEN "scenario" ELSE sim.value IN
       sim' = [sim EXCEPT !.value = v, !.shown = IF sim.animated THEN v ELSE @]
  /\ UNCHANGED disk

SimReacts == AnimationTick
SimNext ==
  \/ StartStop \/ ProfileChanged \/ NewProfile \/ EditProfile \/ Waveform \/ DeleteProfile
  \/ SetSignalValue \/ SimReacts

\* Timers run exactly while Start is down, for the profile that is selected and shown; its
\* file is never gone.  What is on disk differs from it in the identifier alone, and only
\* when that has two digits; a built-in file never changes.  A value shown as manual is the
\* one that is sent, unless a waveform is stored without points or was just chosen: then
\* the tree shows the file's value over a simulation that goes its own way.
SimSound ==
  /\ sim.running = sim.start /\ (sim.timers > 0 <=> sim.running)
  /\ disk[sim.path] # NoFile /\ disk["plant"] = Plant
  /\ sim.path \in Custom =>
       /\ [disk[sim.path] EXCEPT !.id = 0] = [sim.current EXCEPT !.id = 0]
       /\ sim.current.id < 10 => disk[sim.path].id = sim.current.id
  /\ sim.live.id = sim.current.id /\ sim.live.wave = sim.current.wave
  /\ ~sim.animated /\ ~sim.reshaped /\ sim.current.wave = "none" => sim.shown = sim.value

\* "Persist waveform changes for custom (non-built-in) profiles"
\* (simulator_panel_waveform.cpp:161): the profile on disk is the one in use.
ProfilePersists == sim.path \in Custom => disk[sim.path] = sim.current
============================================================================
