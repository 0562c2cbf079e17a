---------------------------- MODULE ProtoMessages ----------------------------
(***************************************************************************)
(* The messages of the client protocol and of the IPC protocol, as their   *)
(* generated classes have them.  For each message:                         *)
(*   - the fields its accessors give access to, with their type: "uint32", *)
(*     "uint64", "bool", "enum", "string", "bytes", "optional uint32",     *)
(*     "map", or the name of the message it holds;                         *)
(*   - _Parse: the tags _InternalParse takes, and the field each sets;     *)
(*   - _Serialize: the field numbers _InternalSerialize writes and         *)
(*     ByteSizeLong counts, in their order.                                *)
(***************************************************************************)

-----------------------------------------------------------------------------
(* Headers of client messages: game/common.pb.h, .cc.                      *)

RequestHeader == [message_id |-> "uint32", sequence |-> "uint64", timestamp_ms |-> "uint64"]
RequestHeader_Parse == {<<8, "message_id">>, <<16, "sequence">>, <<24, "timestamp_ms">>}
RequestHeader_Serialize == << <<1, "message_id">>, <<2, "sequence">>, <<3, "timestamp_ms">> >>

ResponseHeader == [message_id |-> "uint32", sequence |-> "uint64", error_code |-> "enum",
    error_message |-> "string"]
ResponseHeader_Parse == {<<8, "message_id">>, <<16, "sequence">>, <<24, "error_code">>,
    <<34, "error_message">>}
ResponseHeader_Serialize == << <<1, "message_id">>, <<2, "sequence">>, <<3, "error_code">>,
    <<4, "error_message">> >>

-----------------------------------------------------------------------------
(* Login, heartbeat and kick of a client: game/login.pb.h, .cc.            *)

LoginRequest == [header |-> "RequestHeader", platform |-> "string", account_id |-> "string",
    credential |-> "string", client_version |-> "uint32", channel |-> "string"]
LoginRequest_Parse == {<<10, "header">>, <<18, "platform">>, <<26, "account_id">>,
    <<34, "credential">>, <<40, "client_version">>, <<50, "channel">>}
LoginRequest_Serialize == << <<1, "header">>, <<2, "platform">>, <<3, "account_id">>,
    <<4, "credential">>, <<5, "client_version">>, <<6, "channel">> >>

LoginResponse == [header |-> "ResponseHeader", player_id |-> "uint64",
    initial_snapshot |-> "bytes", is_reconnect |-> "bool"]
LoginResponse_Parse == {<<10, "header">>, <<16, "player_id">>, <<26, "initial_snapshot">>,
    <<32, "is_reconnect">>}
LoginResponse_Serialize == << <<1, "header">>, <<2, "player_id">>, <<3, "initial_snapshot">>,
    <<4, "is_reconnect">> >>

HeartbeatRequest == [header |-> "RequestHeader"]
HeartbeatRequest_Parse == {<<10, "header">>}
HeartbeatRequest_Serialize == << <<1, "header">> >>

HeartbeatResponse == [header |-> "ResponseHeader", server_time_ms |-> "uint64"]
HeartbeatResponse_Parse == {<<10, "header">>, <<16, "server_time_ms">>}
HeartbeatResponse_Serialize == << <<1, "header">>, <<2, "server_time_ms">> >>

KickNotification == [reason |-> "string"]
KickNotification_Parse == {<<10, "reason">>}
KickNotification_Serialize == << <<1, "reason">> >>

-----------------------------------------------------------------------------
(* Player messages: game/player.pb.h, .cc.                                 *)

PlayerMessageRequest == [header |-> "RequestHeader", payload |-> "bytes"]
PlayerMessageRequest_Parse == {<<10, "header">>, <<18, "payload">>}
PlayerMessageRequest_Serialize == << <<1, "header">>, <<2, "payload">> >>

PlayerMessageResponse == [header |-> "ResponseHeader", payload |-> "bytes"]
PlayerMessageResponse_Parse == {<<10, "header">>, <<18, "payload">>}
PlayerMessageResponse_Serialize == << <<1, "header">>, <<2, "payload">> >>

PlayerPushMessage == [message_id |-> "uint32", payload |-> "bytes"]
PlayerPushMessage_Parse == {<<8, "message_id">>, <<18, "payload">>}
PlayerPushMessage_Serialize == << <<1, "message_id">>, <<2, "payload">> >>

PlayerEchoRequest == [text |-> "string"]
PlayerEchoRequest_Parse == {<<10, "text">>}
PlayerEchoRequest_Serialize == << <<1, "text">> >>

PlayerEchoResponse == [player_id |-> "uint64", text |-> "string", display_name |-> "string",
    login_count |-> "uint64"]
PlayerEchoResponse_Parse == {<<8, "player_id">>, <<18, "text">>, <<26, "display_name">>,
    <<32, "login_count">>}
PlayerEchoResponse_Serialize == << <<1, "player_id">>, <<2, "text">>, <<3, "display_name">>,
    <<4, "login_count">> >>

RenamePlayerRequest == [display_name |-> "string"]
RenamePlayerRequest_Parse == {<<10, "display_name">>}
RenamePlayerRequest_Serialize == << <<1, "display_name">> >>

RenamePlayerResponse == [player_id |-> "uint64", display_name |-> "string"]
RenamePlayerResponse_Parse == {<<8, "player_id">>, <<18, "display_name">>}
RenamePlayerResponse_Serialize == << <<1, "player_id">>, <<2, "display_name">> >>

PlayerProfilePush == [player_id |-> "uint64", display_name |-> "string", level |-> "uint32",
    login_count |-> "uint64"]
PlayerProfilePush_Parse == {<<8, "player_id">>, <<18, "display_name">>, <<24, "level">>,
    <<32, "login_count">>}
PlayerProfilePush_Serialize == << <<1, "player_id">>, <<2, "display_name">>, <<3, "level">>,
    <<4, "login_count">> >>

-----------------------------------------------------------------------------
(* What is stored of a player: game/player_data.pb.h, .cc.                 *)

PlayerBaseData == [player_id |-> "uint64", display_name |-> "string",
    created_at_ms |-> "uint64", last_login_at_ms |-> "uint64"]
PlayerBaseData_Parse == {<<8, "player_id">>, <<18, "display_name">>, <<24, "created_at_ms">>,
    <<32, "last_login_at_ms">>}
PlayerBaseData_Serialize == << <<1, "player_id">>, <<2, "display_name">>,
    <<3, "created_at_ms">>, <<4, "last_login_at_ms">> >>

PlayerCoreData == [level |-> "uint32", experience |-> "uint64", login_count |-> "uint64"]
PlayerCoreData_Parse == {<<8, "level">>, <<16, "experience">>, <<24, "login_count">>}
PlayerCoreData_Serialize == << <<1, "level">>, <<2, "experience">>, <<3, "login_count">> >>

PlayerExtensionsData == [opaque_blob |-> "bytes"]
PlayerExtensionsData_Parse == {<<10, "opaque_blob">>}
PlayerExtensionsData_Serialize == << <<1, "opaque_blob">> >>

PlayerData == [base |-> "PlayerBaseData", core |-> "PlayerCoreData",
    extensions |-> "PlayerExtensionsData"]
PlayerData_Parse == {<<10, "base">>, <<18, "core">>, <<26, "extensions">>}
PlayerData_Serialize == << <<1, "base">>, <<2, "core">>, <<3, "extensions">> >>

-----------------------------------------------------------------------------
(* Login and reconnect between gate and game: ipc/login.pb.h, .cc.         *)

LoginPlayerRequest == [request_id |-> "uint64", gate_service_type |-> "uint32",
    gate_instance_id |-> "uint32", gate_session_id |-> "uint64", platform |-> "string",
    account_id |-> "string", area_id |-> "uint32", client_version |-> "uint32",
    channel |-> "string", login_token |-> "string"]
LoginPlayerRequest_Parse == {<<8, "request_id">>, <<16, "gate_service_type">>,
    <<24, "gate_instance_id">>, <<32, "gate_session_id">>, <<42, "platform">>,
    <<50, "account_id">>, <<56, "area_id">>, <<64, "client_version">>, <<74, "channel">>,
    <<82, "login_token">>}
LoginPlayerRequest_Serialize == << <<1, "request_id">>, <<2, "gate_service_type">>,
    <<3, "gate_instance_id">>, <<4, "gate_session_id">>, <<5, "platform">>,
    <<6, "account_id">>, <<7, "area_id">>, <<8, "client_version">>, <<9, "channel">>,
    <<10, "login_token">> >>

LoginPlayerResponse == [request_id |-> "uint64", result_code |-> "enum",
    player_id |-> "uint64", game_service_type |-> "uint32", game_instance_id |-> "uint32",
    is_reconnect |-> "bool", initial_player_snapshot |-> "bytes", error_message |-> "string"]
LoginPlayerResponse_Parse == {<<8, "request_id">>, <<16, "result_code">>, <<24, "player_id">>,
    <<32, "game_service_type">>, <<40, "game_instance_id">>, <<48, "is_reconnect">>,
    <<58, "initial_player_snapshot">>, <<66, "error_message">>}
LoginPlayerResponse_Serialize == << <<1, "request_id">>, <<2, "result_code">>,
    <<3, "player_id">>, <<4, "game_service_type">>, <<5, "game_instance_id">>,
    <<6, "is_reconnect">>, <<7, "initial_player_snapshot">>, <<8, "error_message">> >>

ReconnectPlayerRequest == [request_id |-> "uint64", player_id |-> "uint64",
    gate_service_type |-> "uint32", gate_instance_id |-> "uint32",
    gate_session_id |-> "uint64", account_id |-> "string", client_version |-> "uint32"]
ReconnectPlayerRequest_Parse == {<<8, "request_id">>, <<16, "player_id">>,
    <<24, "gate_service_type">>, <<32, "gate_instance_id">>, <<40, "gate_session_id">>,
    <<50, "account_id">>, <<56, "client_version">>}
ReconnectPlayerRequest_Serialize == << <<1, "request_id">>, <<2, "player_id">>,
    <<3, "gate_service_type">>, <<4, "gate_instance_id">>, <<5, "gate_session_id">>,
    <<6, "account_id">>, <<7, "client_version">> >>

ReconnectPlayerResponse == [request_id |-> "uint64", result_code |-> "enum",
    player_id |-> "uint64", game_service_type |-> "uint32", game_instance_id |-> "uint32",
    player_snapshot |-> "bytes", error_message |-> "string"]
ReconnectPlayerResponse_Parse == {<<8, "request_id">>, <<16, "result_code">>,
    <<24, "player_id">>, <<32, "game_service_type">>, <<40, "game_instance_id">>,
    <<50, "player_snapshot">>, <<58, "error_message">>}
ReconnectPlayerResponse_Serialize == << <<1, "request_id">>, <<2, "result_code">>,
    <<3, "player_id">>, <<4, "game_service_type">>, <<5, "game_instance_id">>,
    <<6, "player_snapshot">>, <<7, "error_message">> >>

-----------------------------------------------------------------------------
(* Sessions between gate and game: ipc/session.pb.h, .cc.                  *)

KickAccountSession == [request_id |-> "uint64", account_id |-> "string",
    old_gate_service_type |-> "uint32", old_gate_instance_id |-> "uint32",
    old_gate_session_id |-> "uint64", new_gate_service_type |-> "uint32",
    new_gate_instance_id |-> "uint32", reason |-> "string"]
KickAccountSession_Parse == {<<8, "request_id">>, <<18, "account_id">>,
    <<24, "old_gate_service_type">>, <<32, "old_gate_instance_id">>,
    <<40, "old_gate_session_id">>, <<48, "new_gate_service_type">>,
    <<56, "new_gate_instance_id">>, <<66, "reason">>}
KickAccountSession_Serialize == << <<1, "request_id">>, <<2, "account_id">>,
    <<3, "old_gate_service_type">>, <<4, "old_gate_instance_id">>,
    <<5, "old_gate_session_id">>, <<6, "new_gate_service_type">>,
    <<7, "new_gate_instance_id">>, <<8, "reason">> >>

KickAccountSessionAck == [request_id |-> "uint64", result_code |-> "enum",
    account_id |-> "string", old_gate_session_id |-> "uint64"]
KickAccountSessionAck_Parse == {<<8, "request_id">>, <<16, "result_code">>,
    <<26, "account_id">>, <<32, "old_gate_session_id">>}
KickAccountSessionAck_Serialize == << <<1, "request_id">>, <<2, "result_code">>,
    <<3, "account_id">>, <<4, "old_gate_session_id">> >>

PlayerDisconnected == [player_id |-> "uint64", gate_service_type |-> "uint32",
    gate_instance_id |-> "uint32", gate_session_id |-> "uint64", reason |-> "enum",
    occurred_at_ms |-> "uint64"]
PlayerDisconnected_Parse == {<<8, "player_id">>, <<16, "gate_service_type">>,
    <<24, "gate_instance_id">>, <<32, "gate_session_id">>, <<40, "reason">>,
    <<48, "occurred_at_ms">>}
PlayerDisconnected_Serialize == << <<1, "player_id">>, <<2, "gate_service_type">>,
    <<3, "gate_instance_id">>, <<4, "gate_session_id">>, <<5, "reason">>,
    <<6, "occurred_at_ms">> >>

BindPlayerSession == [player_id |-> "uint64", gate_service_type |-> "uint32",
    gate_instance_id |-> "uint32", gate_session_id |-> "uint64"]
BindPlayerSession_Parse == {<<8, "player_id">>, <<16, "gate_service_type">>,
    <<24, "gate_instance_id">>, <<32, "gate_session_id">>}
BindPlayerSession_Serialize == << <<1, "player_id">>, <<2, "gate_service_type">>,
    <<3, "gate_instance_id">>, <<4, "gate_session_id">> >>

UnbindPlayerSession == [player_id |-> "uint64", gate_service_type |-> "uint32",
    gate_instance_id |-> "uint32", gate_session_id |-> "uint64", reason |-> "enum"]
UnbindPlayerSession_Parse == {<<8, "player_id">>, <<16, "gate_service_type">>,
    <<24, "gate_instance_id">>, <<32, "gate_session_id">>, <<40, "reason">>}
UnbindPlayerSession_Serialize == << <<1, "player_id">>, <<2, "gate_service_type">>,
    <<3, "gate_instance_id">>, <<4, "gate_session_id">>, <<5, "reason">> >>

-----------------------------------------------------------------------------
(* Forwarded player messages: ipc/player_message.pb.h, .cc.                *)

ForwardPlayerMessageRequest == [request_id |-> "uint64", gate_service_type |-> "uint32",
    gate_instance_id |-> "uint32", gate_session_id |-> "uint64", player_id |-> "uint64",
    message_id |-> "uint32", payload_bytes |-> "bytes", client_sequence |-> "uint64",
    timestamp_ms |-> "uint64"]
ForwardPlayerMessageRequest_Parse == {<<8, "request_id">>, <<16, "gate_service_type">>,
    <<24, "gate_instance_id">>, <<32, "gate_session_id">>, <<40, "player_id">>,
    <<48, "message_id">>, <<58, "payload_bytes">>, <<64, "client_sequence">>,
    <<72, "timestamp_ms">>}
ForwardPlayerMessageRequest_Serialize == << <<1, "request_id">>, <<2, "gate_service_type">>,
    <<3, "gate_instance_id">>, <<4, "gate_session_id">>, <<5, "player_id">>,
    <<6, "message_id">>, <<7, "payload_bytes">>, <<8, "client_sequence">>,
    <<9, "timestamp_ms">> >>

ForwardPlayerMessageResponse == [request_id |-> "uint64", player_id |-> "uint64",
    message_id |-> "uint32", result_code |-> "enum", response_payload_bytes |-> "bytes",
    server_sequence |-> "uint64", error_message |-> "string"]
ForwardPlayerMessageResponse_Parse == {<<8, "request_id">>, <<16, "player_id">>,
    <<24, "message_id">>, <<32, "result_code">>, <<42, "response_payload_bytes">>,
    <<48, "server_sequence">>, <<58, "error_message">>}
ForwardPlayerMessageResponse_Serialize == << <<1, "request_id">>, <<2, "player_id">>,
    <<3, "message_id">>, <<4, "result_code">>, <<5, "response_payload_bytes">>,
    <<6, "server_sequence">>, <<7, "error_message">> >>

-----------------------------------------------------------------------------
(* Pushes: ipc/push.pb.h, .cc.                                             *)

PushPlayerMessage == [player_id |-> "uint64", gate_service_type |-> "uint32",
    gate_instance_id |-> "uint32", gate_session_id |-> "uint64", message_id |-> "uint32",
    payload_bytes |-> "bytes", push_sequence |-> "uint64"]
PushPlayerMessage_Parse == {<<8, "player_id">>, <<16, "gate_service_type">>,
    <<24, "gate_instance_id">>, <<32, "gate_session_id">>, <<40, "message_id">>,
    <<50, "payload_bytes">>, <<56, "push_sequence">>}
PushPlayerMessage_Serialize == << <<1, "player_id">>, <<2, "gate_service_type">>,
    <<3, "gate_instance_id">>, <<4, "gate_session_id">>, <<5, "message_id">>,
    <<6, "payload_bytes">>, <<7, "push_sequence">> >>

-----------------------------------------------------------------------------
(* Addresses: ipc/types.pb.h, .cc.                                         *)

ProcessIdentity == [service_type |-> "uint32", instance_id |-> "uint32",
    incarnation_id |-> "uint64"]
ProcessIdentity_Parse == {<<8, "service_type">>, <<16, "instance_id">>,
    <<24, "incarnation_id">>}
ProcessIdentity_Serialize == << <<1, "service_type">>, <<2, "instance_id">>,
    <<3, "incarnation_id">> >>

ProcessRef == [service_type |-> "uint32", instance_id |-> "uint32",
    incarnation_id |-> "uint64"]
ProcessRef_Parse == {<<8, "service_type">>, <<16, "instance_id">>, <<24, "incarnation_id">>}
ProcessRef_Serialize == << <<1, "service_type">>, <<2, "instance_id">>,
    <<3, "incarnation_id">> >>

Endpoint == [host |-> "string", port |-> "uint32"]
Endpoint_Parse == {<<10, "host">>, <<16, "port">>}
Endpoint_Serialize == << <<1, "host">>, <<2, "port">> >>

ReceiverAddress == [type |-> "uint32", key_hi |-> "uint64", key_lo |-> "uint64"]
ReceiverAddress_Parse == {<<8, "type">>, <<16, "key_hi">>, <<24, "key_lo">>}
ReceiverAddress_Serialize == << <<1, "type">>, <<2, "key_hi">>, <<3, "key_lo">> >>

BroadcastScope == [service_type |-> "optional uint32", required_labels |-> "map",
    include_local |-> "bool"]
BroadcastScope_Parse == {<<8, "service_type">>, <<18, "required_labels">>,
    <<24, "include_local">>}
BroadcastScope_Serialize == << <<1, "service_type">>, <<2, "required_labels">>,
    <<3, "include_local">> >>

-----------------------------------------------------------------------------
Class == [RequestHeader |-> RequestHeader, ResponseHeader |-> ResponseHeader,
    LoginRequest |-> LoginRequest, LoginResponse |-> LoginResponse,
    HeartbeatRequest |-> HeartbeatRequest, HeartbeatResponse |-> HeartbeatResponse,
    KickNotification |-> KickNotification, PlayerMessageRequest |-> PlayerMessageRequest,
    PlayerMessageResponse |-> PlayerMessageResponse, PlayerPushMessage |-> PlayerPushMessage,
    PlayerEchoRequest |-> PlayerEchoRequest, PlayerEchoResponse |-> PlayerEchoResponse,
    RenamePlayerRequest |-> RenamePlayerRequest, RenamePlayerResponse |-> RenamePlayerResponse,
    PlayerProfilePush |-> PlayerProfilePush, PlayerBaseData |-> PlayerBaseData,
    PlayerCoreData |-> PlayerCoreData, PlayerExtensionsData |-> PlayerExtensionsData,
    PlayerData |-> PlayerData, LoginPlayerRequest |-> LoginPlayerRequest,
    LoginPlayerResponse |-> LoginPlayerResponse,
    ReconnectPlayerRequest |-> ReconnectPlayerRequest,
    ReconnectPlayerResponse |-> ReconnectPlayerResponse,
    KickAccountSession |-> KickAccountSession, KickAccountSessionAck |-> KickAccountSessionAck,
    PlayerDisconnected |-> PlayerDisconnected, BindPlayerSession |-> BindPlayerSession,
    UnbindPlayerSession |-> UnbindPlayerSession,
    ForwardPlayerMessageRequest |-> ForwardPlayerMessageRequest,
    ForwardPlayerMessageResponse |-> ForwardPlayerMessageResponse,
    PushPlayerMessage |-> PushPlayerMessage, ProcessIdentity |-> ProcessIdentity,
    ProcessRef |-> ProcessRef, Endpoint |-> Endpoint, ReceiverAddress |-> ReceiverAddress,
    BroadcastScope |-> BroadcastScope]
ParseTable == [RequestHeader |-> RequestHeader_Parse, ResponseHeader |-> ResponseHeader_Parse,
    LoginRequest |-> LoginRequest_Parse, LoginResponse |-> LoginResponse_Parse,
    HeartbeatRequest |-> HeartbeatRequest_Parse, HeartbeatResponse |-> HeartbeatResponse_Parse,
    KickNotification |-> KickNotification_Parse,
    PlayerMessageRequest |-> PlayerMessageRequest_Parse,
    PlayerMessageResponse |-> PlayerMessageResponse_Parse,
    PlayerPushMessage |-> PlayerPushMessage_Parse,
    PlayerEchoRequest |-> PlayerEchoRequest_Parse,
    PlayerEchoResponse |-> PlayerEchoResponse_Parse,
    RenamePlayerRequest |-> RenamePlayerRequest_Parse,
    RenamePlayerResponse |-> RenamePlayerResponse_Parse,
    PlayerProfilePush |-> PlayerProfilePush_Parse, PlayerBaseData |-> PlayerBaseData_Parse,
    PlayerCoreData |-> PlayerCoreData_Parse,
    PlayerExtensionsData |-> PlayerExtensionsData_Parse, PlayerData |-> PlayerData_Parse,
    LoginPlayerRequest |-> LoginPlayerRequest_Parse,
    LoginPlayerResponse |-> LoginPlayerResponse_Parse,
    ReconnectPlayerRequest |-> ReconnectPlayerRequest_Parse,
    ReconnectPlayerResponse |-> ReconnectPlayerResponse_Parse,
    KickAccountSession |-> KickAccountSession_Parse,
    KickAccountSessionAck |-> KickAccountSessionAck_Parse,
    PlayerDisconnected |-> PlayerDisconnected_Parse,
    BindPlayerSession |-> BindPlayerSession_Parse,
    UnbindPlayerSession |-> UnbindPlayerSession_Parse,
    ForwardPlayerMessageRequest |-> ForwardPlayerMessageRequest_Parse,
    ForwardPlayerMessageResponse |-> ForwardPlayerMessageResponse_Parse,
    PushPlayerMessage |-> PushPlayerMessage_Parse, ProcessIdentity |-> ProcessIdentity_Parse,
    ProcessRef |-> ProcessRef_Parse, Endpoint |-> Endpoint_Parse,
    ReceiverAddress |-> ReceiverAddress_Parse, BroadcastScope |-> BroadcastScope_Parse]
SerializeTable == [RequestHeader |-> RequestHeader_Serialize,
    ResponseHeader |-> ResponseHeader_Serialize, LoginRequest |-> LoginRequest_Serialize,
    LoginResponse |-> LoginResponse_Serialize, HeartbeatRequest |-> HeartbeatRequest_Serialize,
    HeartbeatResponse |-> HeartbeatResponse_Serialize,
    KickNotification |-> KickNotification_Serialize,
    PlayerMessageRequest |-> PlayerMessageRequest_Serialize,
    PlayerMessageResponse |-> PlayerMessageResponse_Serialize,
    PlayerPushMessage |-> PlayerPushMessage_Serialize,
    PlayerEchoRequest |-> PlayerEchoRequest_Serialize,
    PlayerEchoResponse |-> PlayerEchoResponse_Serialize,
    RenamePlayerRequest |-> RenamePlayerRequest_Serialize,
    RenamePlayerResponse |-> RenamePlayerResponse_Serialize,
    PlayerProfilePush |-> PlayerProfilePush_Serialize,
    PlayerBaseData |-> PlayerBaseData_Serialize, PlayerCoreData |-> PlayerCoreData_Serialize,
    PlayerExtensionsData |-> PlayerExtensionsData_Serialize,
    PlayerData |-> PlayerData_Serialize, LoginPlayerRequest |-> LoginPlayerRequest_Serialize,
    LoginPlayerResponse |-> LoginPlayerResponse_Serialize,
    ReconnectPlayerRequest |-> ReconnectPlayerRequest_Serialize,
    ReconnectPlayerResponse |-> ReconnectPlayerResponse_Serialize,
    KickAccountSession |-> KickAccountSession_Serialize,
    KickAccountSessionAck |-> KickAccountSessionAck_Serialize,
    PlayerDisconnected |-> PlayerDisconnected_Serialize,
    BindPlayerSession |-> BindPlayerSession_Serialize,
    UnbindPlayerSession |-> UnbindPlayerSession_Serialize,
    ForwardPlayerMessageRequest |-> ForwardPlayerMessageRequest_Serialize,
    ForwardPlayerMessageResponse |-> ForwardPlayerMessageResponse_Serialize,
    PushPlayerMessage |-> PushPlayerMessage_Serialize,
    ProcessIdentity |-> ProcessIdentity_Serialize, ProcessRef |-> ProcessRef_Serialize,
    Endpoint |-> Endpoint_Serialize, ReceiverAddress |-> ReceiverAddress_Serialize,
    BroadcastScope |-> BroadcastScope_Serialize]
=============================================================================
