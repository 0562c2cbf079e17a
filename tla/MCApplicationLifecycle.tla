------------------------ MODULE MCApplicationLifecycle ------------------------
(* The services of the game process: the order in which                    *)
(* Application::RegisterServices adds them, and their batches.             *)
EXTENDS ApplicationLifecycle

MCRegistered ==
    <<"storage", "player_directory", "player_repository", "player_lease", "player_runtime",
      "game_ipc_client", "player_session", "player_persistence", "player_login",
      "game_player_message">>

MCBatch ==
    [s \in Services |->
        CASE s = "storage" -> 0
          [] s = "player_directory" -> 10
          [] s = "player_lease" -> 18
          [] s = "player_repository" -> 20
          [] s = "player_runtime" -> 25
          [] s = "game_ipc_client" -> 100
          [] s = "player_session" -> 30
          [] s = "player_persistence" -> 35
          [] s = "player_login" -> 40
          [] s = "game_player_message" -> 50]
=============================================================================
