--------------------------- MODULE MCYoutubeSession ---------------------------
EXTENDS YoutubeSession
=============================================================================
