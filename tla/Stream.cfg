SPECIFICATION MCSpec
CONSTANTS
  Codes <- MCCodes
  Fields <- MCFields
  Hex <- MCHex
  LineOf <- MCLineOf
  DataSym <- MCDataSym
  EventSym <- MCEventSym
  LenSym <- MCLenSym
  Responses <- MCResponses
  Answers <- MCAnswers
  Adapters = {"openai", "gemini", "anthropic"}
  MaxHead = 10
  MaxBody = 99
  MaxFrame = 12
  MaxEvents = 0
  Scratch = 8
  MaxRetries = 1
  MaxResp = 6
  Wires = {"anthropic", "openai", "gemini"}
  Tools = {"read", "write"}
  MaxCalls = 2
  MaxRounds = 2
CHECK_DEADLOCK FALSE
CONSTRAINT CleanRounds
INVARIANTS AnswerIsReceived ResultsFollowCalls
