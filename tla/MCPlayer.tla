------------------------------ MODULE MCPlayer ------------------------------
(* The player on a YouTube link that may turn out to be live, a Twitch      *)
(* recording, a Twitch link that names nothing, a Kick channel, an HLS      *)
(* stream of known length and a plain file.                                 *)
EXTENDS Player

MCSources == {"yt", "tw", "bad", "kick", "hls", "mp4"}
MCKindOf ==
  [yt |-> "youtube", tw |-> "twitch", bad |-> "twitch", kick |-> "kick", hls |-> "hls",
   mp4 |-> "file"]
MCLiveSources == {"yt", "kick"}
MCBadLinks == {"bad"}
MCRates == {400, 800}
MCCannotLoad == {"youtube", "twitch", "hls"}
=============================================================================
