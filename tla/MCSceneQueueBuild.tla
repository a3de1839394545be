------------------------- MODULE MCSceneQueueBuild --------------------------
EXTENDS SceneQueueBuild

MCTask == 1..5
=============================================================================
