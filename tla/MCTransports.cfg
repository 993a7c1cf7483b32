SPECIFICATION FairSpec
CONSTANTS
    Words <- MCWords
    Table <- MCTable
    HasPrefix <- MCHasPrefix
    SlashParts <- MCSlashParts
    PlusParts <- MCPlusParts
    Payloads <- MCPayloads
INVARIANTS
    RunsWhatWasAsked
    SameAnswer
PROPERTY
    TunnelAnswers
