--------------------------- MODULE MCNodeServices ---------------------------
(* NodeServices with two joints, thresholds of 1 to 3, a ceiling of 2, and  *)
(* each way a parameter or a request can be wrong.                          *)
EXTENDS NodeServices

Named2(sensitive, default, loose) ==
  [name \in Named |-> CASE name = "sensitive" -> sensitive
                        [] name = "default" -> default
                        [] name = "loose" -> loose]

Config(detection, ceiling, named) ==
  [detection |-> detection, ceiling |-> ceiling, named |-> named]

SoundProfiles == Named2(<<1, 1>>, <<1, 2>>, <<2, 2>>)

\* The last four do not start the node.
MCConfigs ==
  {Config(detection, <<2, 2>>, SoundProfiles) : detection \in Detections}
    \cup {Config("enforce", <<2, 2>>, Named2(<<1, 1>>, <<1, 2>>, <<2, 3>>)),
          Config("enforce", <<2, NotFinite>>, SoundProfiles),
          Config("enforce", <<2, 2>>, Named2(<<1>>, <<1, 2>>, <<2, 2>>)),
          Config("on", <<2, 2>>, SoundProfiles)}

MCRequests ==
  [profile : Named, custom : {<<>>}]
    \cup [profile : {"custom"},
          custom : {<<2, 1>>, <<2, 3>>, <<0, 1>>, <<1>>, <<1, NotFinite>>}]
    \cup {[profile |-> "loose", custom |-> <<1, 1>>],
          [profile |-> "unknown", custom |-> <<>>]}
=============================================================================
