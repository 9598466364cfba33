------------------------------- MODULE MCFrames -------------------------------
EXTENDS Frames
===============================================================================
